---- MODULE Spec2Model ----
(***************************************************************************)
(* A model of the crdmetrics controller: the informer handlers and the     *)
(* rate-limited work queue (internal/controller.go), the event handler     *)
(* that drops and rebuilds the stores of a managed resource                *)
(* (internal/events.go, internal/config.go, internal/builder.go), the      *)
(* per-kind metric store (internal/store.go) and the exposition writer of  *)
(* the main server (internal/server.go, internal/writer.go).               *)
(*                                                                         *)
(* Go pointers to StoreType are indices into the heap `stores`.  A types.  *)
(* UID is a positive number, the empty UID "" is 0.  A resourceVersion is  *)
(* an opaque token that every write of the object changes.  A              *)
(* configuration YAML is one of three texts, parsed by `parse`.            *)
(***************************************************************************)
EXTENDS Integers, Sequences, FiniteSets, TLC

(***************************************************************************)
(* Bounds of the model.                                                    *)
(***************************************************************************)
MaxUID == 1
MaxStores == 3
MaxObjVer == 2

\* --workers, default 2.
Workers == 2

Names == {"a"}
ObjUIDs == {"o1", "o2"}
WorkerIds == 1..Workers
SerialWorkerIds == {1}

addEvent == "addEvent"
updateEvent == "updateEvent"
deleteEvent == "deleteEvent"

\* The configuration texts a managed resource may carry.
Configs == {"cfgA", "cfgB", "cfgBad"}

(***************************************************************************)
(* Configuration: parse and the headers of a family.                       *)
(***************************************************************************)

\* yaml.Unmarshal of the configuration text into configuration.Stores.
\* cfgA declares two target kinds, cfgB keeps only the first with one family,
\* cfgBad is not YAML of the expected shape.
parse(raw) ==
    CASE raw = "cfgA" ->
           [err |-> FALSE,
            Stores |-> << [Kind |-> "K1", Families |-> <<"f1", "f2">>],
                          [Kind |-> "K2", Families |-> <<"f3">>] >>]
      [] raw = "cfgB" ->
           [err |-> FALSE,
            Stores |-> << [Kind |-> "K1", Families |-> <<"f1">>] >>]
      [] OTHER -> [err |-> TRUE, Stores |-> << >>]

\* A Go map with no entry.
EmptyMap == [k \in {} |-> 0]

\* m[k] = v on a Go map.
MapPut(m, k, v) == [x \in DOMAIN m \cup {k} |-> IF x = k THEN v ELSE m[x]]

\* delete(m, k) on a Go map.
MapDelete(m, k) == [x \in DOMAIN m \ {k} |-> m[x]]

\* FamilyType.buildHeaders: the HELP line and the TYPE line of one family.
buildHeaders(f) ==
    << [t |-> "HELP", f |-> f, o |-> "", v |-> 0],
       [t |-> "TYPE", f |-> f, o |-> "", v |-> 0] >>

\* buildStore/newStore: headers[i] = Families[i].buildHeaders(), an empty
\* metrics map, an unlocked mutex.
buildStore(storeConfiguration) ==
    [Kind |-> storeConfiguration.Kind,
     Families |-> storeConfiguration.Families,
     headers |-> [i \in 1..Len(storeConfiguration.Families) |->
                    buildHeaders(storeConfiguration.Families[i])],
     metrics |-> EmptyMap,
     readers |-> 0]

VARIABLES
    api,          \* the managed resources of the cluster, by name
    workqueue,    \* [queue, dirty, processing] of the rate-limited work queue
    worker,       \* each reconciler worker: pc, item, resource, j, result
    registry,     \* crdmetricsUIDToStoresMap: UID -> sequence of store pointers
    stores,       \* the heap of StoreType values, by pointer
    nextUID,      \* the next UID the API server assigns
    fatal,        \* the Go runtime has aborted the process
    scrape,       \* the HTTP handler serving /metrics
    targets,      \* the custom resources the stores watch: UID -> version
    watch,        \* each store's reflector: its watch and the events in it
    render,       \* one call of FamilyType.rawWith: its inputs and its builder
    requestDurationVec  \* http_request_duration_seconds: its observations

vars == <<api, workqueue, worker, registry, stores, nextUID, fatal, scrape,
          targets, watch, render, requestDurationVec>>

(***************************************************************************)
(* Managed resources and the API server.                                   *)
(***************************************************************************)
EmptyUID == 0

\* No object of that name.
Absent == [uid |-> EmptyUID, spec |-> "", conditions |-> << >>]

\* The condition types and statuses the handler writes.
ConditionTypeProcessed == "Processed"
ConditionTypeFailed == "Failed"
ConditionTrue == "True"
ConditionFalse == "False"

\* Faulty variant: the condition is appended whatever the list holds.
SetAppends(conditions, condition) == Append(conditions, condition)

\* CRDMetricsResourceStatus.Set: the condition replaces the one of its type
\* in place, and is appended when the list has none of that type.
Set(conditions, condition) ==
    IF \E i \in 1..Len(conditions) : conditions[i].type = condition.type
    THEN [i \in 1..Len(conditions) |->
            IF conditions[i].type = condition.type THEN condition ELSE conditions[i]]
    ELSE Append(conditions, condition)

\* The status of the condition of that type, "" when the list has none.
StatusOf(conditions, type) ==
    IF \E i \in 1..Len(conditions) : conditions[i].type = type
    THEN (CHOOSE c \in {conditions[i] : i \in 1..Len(conditions)} : c.type = type).status
    ELSE ""

Exists(n) == api[n].uid # EmptyUID

\* The object as the informer hands it to a handler, with its
\* resourceVersion: the one the informer has seen is 0, and a write gives
\* the object a resourceVersion it did not have.
Versioned(obj, rv) == [uid |-> obj.uid, spec |-> obj.spec, rv |-> rv]

SeenRV == 0
WrittenRV == 1

NoItem == <<"", "">>

(***************************************************************************)
(* The work queue (client-go workqueue): Add, Get, Done.                   *)
(***************************************************************************)

\* workqueue.NewRateLimitingQueue: nothing queued, nothing waiting for its
\* delay, no failure counted by the rate limiter, not shutting down.
NewRateLimitingQueue ==
    [queue |-> << >>, dirty |-> {}, processing |-> {},
     failures |-> EmptyMap, waiting |-> {}, shuttingDown |-> FALSE]

\* workqueue.Add: dropped when the queue is shutting down; an item already
\* dirty is dropped; an item being processed is only marked dirty and
\* re-queued by Done.
QueueAdd(q, item) ==
    IF q.shuttingDown THEN q
    ELSE IF item \in q.dirty THEN q
    ELSE IF item \in q.processing
         THEN [q EXCEPT !.dirty = @ \cup {item}]
         ELSE [q EXCEPT !.dirty = @ \cup {item}, !.queue = Append(@, item)]

\* workqueue.Get: the head of the queue starts being processed.
QueueGet(q) ==
    [q EXCEPT !.queue = Tail(q.queue),
              !.dirty = q.dirty \ {Head(q.queue)},
              !.processing = q.processing \cup {Head(q.queue)}]

\* workqueue.Done: the item is no longer processed; re-queued when dirty.
QueueDone(q, item) ==
    IF item \in q.dirty
    THEN [q EXCEPT !.processing = @ \ {item}, !.queue = Append(@, item)]
    ELSE [q EXCEPT !.processing = @ \ {item}]

\* The failures the rate limiter has counted for the item.
NumRequeues(q, item) == IF item \in DOMAIN q.failures THEN q.failures[item] ELSE 0

\* Faulty variant: the failure count of the item is kept.
QueueForgetNothing(q, item) == q

\* workqueue.Forget: the rate limiter drops its failure count of the item.
QueueForget(q, item) == [q EXCEPT !.failures = MapDelete(@, item)]

\* workqueue.AddRateLimited: the rate limiter counts one more failure of the
\* item, and the item waits for the delay it was given.
AddRateLimited(q, item) ==
    IF q.shuttingDown THEN [q EXCEPT !.failures = MapPut(@, item, NumRequeues(q, item) + 1)]
    ELSE [q EXCEPT !.failures = MapPut(@, item, NumRequeues(q, item) + 1),
                   !.waiting = @ \cup {item}]

\* What an informer hands to a handler: the object, or for a deletion it did
\* not observe the tombstone cache.DeletedFinalStateUnknown{Key, Obj}.
Object(n) == [tombstone |-> FALSE, name |-> n]

DeletedFinalStateUnknown(n) == [tombstone |-> TRUE, Key |-> n, Obj |-> Object(n)]

\* cache.MetaNamespaceKeyFunc: the key of an object with metadata; a
\* tombstone has none, so the accessor fails ("object has no meta").
MetaNamespaceKeyFunc(obj) ==
    IF obj.tombstone
    THEN [key |-> "", err |-> TRUE]
    ELSE [key |-> obj.name, err |-> FALSE]

\* Controller.enqueueCRSMResource: on a key error the handler returns;
\* otherwise the item is the pair (key, event).
enqueueCRSMResource(q, obj, event) ==
    IF MetaNamespaceKeyFunc(obj).err
    THEN q
    ELSE QueueAdd(q, <<MetaNamespaceKeyFunc(obj).key, event>>)

\* Faulty variant: every update with a new resourceVersion is queued.
UpdateFuncAnyChange(q, key, old, new) ==
    IF old.rv = new.rv THEN q ELSE enqueueCRSMResource(q, Object(key), updateEvent)

\* UpdateFunc of NewController: skip when the resourceVersions are equal or
\* the specs are deep-equal, enqueue an update item otherwise.
UpdateFunc(q, key, old, new) ==
    IF old.rv = new.rv \/ old.spec = new.spec
    THEN q
    ELSE enqueueCRSMResource(q, Object(key), updateEvent)

AddFunc(q, key) == enqueueCRSMResource(q, Object(key), addEvent)

DeleteFunc(q, obj) == enqueueCRSMResource(q, obj, deleteEvent)

\* Faulty variant: the informer queues an update item for every write.
ApiWriteQueued(q, n, old, new) == enqueueCRSMResource(q, Object(n), updateEvent)

\* A write of object n by anyone: the API server stores it under a new
\* resourceVersion and the informer calls UpdateFunc(old, new).
ApiWrite(q, n, old, new) ==
    UpdateFunc(q, n, Versioned(old, SeenRV), Versioned(new, WrittenRV))

(***************************************************************************)
(* The registry of stores.                                                 *)
(***************************************************************************)

\* Faulty variant: the entry is kept.
dropStoresKeep(reg, resourceUID) == reg

\* dropStores of handleEvent: delete the entry of the UID when it exists.
dropStores(reg, resourceUID) ==
    IF resourceUID \in DOMAIN reg THEN MapDelete(reg, resourceUID) ELSE reg

\* Faulty variant: the store is built and not registered.
appendStoreNowhere(reg, resourceUID, s) == reg

\* configurer.build, one iteration:
\* m[resourceUID] = append(m[resourceUID], s).
appendStore(reg, resourceUID, s) ==
    IF resourceUID \in DOMAIN reg
    THEN MapPut(reg, resourceUID, Append(reg[resourceUID], s))
    ELSE MapPut(reg, resourceUID, <<s>>)

\* The workers about to read or write the registry map.
RegistryWriters == {w \in WorkerIds : worker[w].pc \in {"switch", "build"}}

\* Two unsynchronised accesses to the registry map, one of them a write: the
\* workers take no lock, and the handler's readBinarySemaphore is only ever
\* read-locked.
RegistryRace ==
    \/ Cardinality(RegistryWriters) >= 2
    \/ RegistryWriters # {} /\ scrape.pc = "range"

NoResource == [uid |-> EmptyUID, spec |-> ""]

\* result is "completed" once handleEvent has run to its last statement, and
\* "failed" once it has returned after emitFailureOnResource, "apiError"
\* once it has returned on the error of an API call.
IdleWorker == [pc |-> "idle", item |-> NoItem, resource |-> NoResource, j |-> 0,
               result |-> ""]

IdleScrape == [pc |-> "idle", visited |-> {}, slice |-> << >>, j |-> 0, i |-> 0,
               out |-> << >>]

\* No family is being rendered.
NoRender == [pc |-> "none"]

\* No custom resource of a watched kind exists.
NoTargets == [o \in ObjUIDs |-> 0]

Init ==
    /\ api = [n \in Names |-> Absent]
    /\ workqueue = NewRateLimitingQueue
    /\ worker = [w \in WorkerIds |-> IdleWorker]
    /\ registry = EmptyMap
    /\ stores = << >>
    /\ nextUID = 1
    /\ fatal = FALSE
    /\ scrape = IdleScrape
    /\ targets = NoTargets
    /\ watch = << >>
    /\ render = NoRender
    /\ requestDurationVec = 0

(***************************************************************************)
(* The cluster: users create, change and delete managed resources; the     *)
(* informer calls AddFunc, UpdateFunc and DeleteFunc.                      *)
(***************************************************************************)
UserCreate(n, cfg) ==
    /\ ~fatal
    /\ ~Exists(n)
    /\ nextUID <= MaxUID
    /\ api' = [api EXCEPT ![n] = [Absent EXCEPT !.uid = nextUID, !.spec = cfg]]
    /\ nextUID' = nextUID + 1
    /\ workqueue' = AddFunc(workqueue, n)
    /\ UNCHANGED <<worker, registry, stores, fatal, scrape, targets, watch, render, requestDurationVec>>

UserUpdate(n, cfg) ==
    /\ ~fatal
    /\ Exists(n)
    /\ cfg # api[n].spec
    /\ api' = [api EXCEPT ![n].spec = cfg]
    /\ workqueue' = ApiWrite(workqueue, n, api[n], api'[n])
    /\ UNCHANGED <<worker, registry, stores, nextUID, fatal, scrape, targets, watch, render, requestDurationVec>>

\* The informer delivers the deleted object, or, when the deletion happened
\* while its watch was down, a tombstone found by the relist.
UserDelete(n, obj) ==
    /\ ~fatal
    /\ Exists(n)
    /\ api' = [api EXCEPT ![n] = Absent]
    /\ workqueue' = DeleteFunc(workqueue, obj)
    /\ UNCHANGED <<worker, registry, stores, nextUID, fatal, scrape, targets, watch, render, requestDurationVec>>

\* A relist of the informer: UpdateFunc(obj, obj) for an object it knows.
InformerRelist(n) ==
    /\ ~fatal
    /\ Exists(n)
    /\ workqueue' = UpdateFunc(workqueue, n, Versioned(api[n], SeenRV),
                                Versioned(api[n], SeenRV))
    /\ UNCHANGED <<api, worker, registry, stores, nextUID, fatal, scrape, targets, watch, render, requestDurationVec>>

(***************************************************************************)
(* A reconciler worker: processNextWorkItem, syncHandler, handleEvent.     *)
(***************************************************************************)
Key(w) == worker[w].item[1]
Event(w) == worker[w].item[2]

\* processNextWorkItem takes the next item; syncHandler asks the lister for
\* the resource and, when it is not found, makes an empty one with the name.
Get(w) ==
    /\ ~fatal
    /\ worker[w].pc = "idle"
    /\ workqueue.queue # << >>
    /\ workqueue' = QueueGet(workqueue)
    /\ worker' = [worker EXCEPT ![w] =
           [pc |-> "emitReceived", item |-> Head(workqueue.queue),
            resource |-> NoResource, j |-> 0, result |-> ""]]
    /\ UNCHANGED <<api, registry, stores, nextUID, fatal, scrape, targets, watch, render, requestDurationVec>>

\* handleEvent up to the switch. updateMetadata gets the resource, sets the
\* labels and updates it; emitSuccessOnResource(ConditionFalse) gets it
\* again, sets Processed=False and updates the status, and the handler goes
\* on with the object the API server returned. An error of any of these
\* calls makes handleEvent return nil.
emitReceivedOk(w) ==
    /\ ~fatal
    /\ worker[w].pc = "emitReceived"
    /\ Exists(Key(w))
    /\ api' = [api EXCEPT ![Key(w)].conditions =
                  Set(@, [type |-> ConditionTypeProcessed, status |-> ConditionFalse])]
    /\ workqueue' = ApiWrite(ApiWrite(workqueue, Key(w), api[Key(w)], api[Key(w)]),
                             Key(w), api[Key(w)], api'[Key(w)])
    /\ worker' = [worker EXCEPT
           ![w].resource = [uid |-> api[Key(w)].uid, spec |-> api[Key(w)].spec],
           ![w].pc = IF api[Key(w)].spec = "" THEN "emitFailure" ELSE "switch"]
    /\ UNCHANGED <<registry, stores, nextUID, fatal, scrape, targets, watch, render, requestDurationVec>>

\* A get, the update or the status update fails: the error is logged and
\* handleEvent returns nil.
emitReceivedErr(w) ==
    /\ ~fatal
    /\ worker[w].pc = "emitReceived"
    /\ worker' = [worker EXCEPT ![w].pc = "forget", ![w].result = "apiError"]
    /\ UNCHANGED <<api, workqueue, registry, stores, nextUID, fatal, scrape, targets, watch, render, requestDurationVec>>

emitReceived(w) == emitReceivedOk(w) \/ emitReceivedErr(w)

\* switch event: an add or an update drops the stores of the UID and parses
\* the configuration; a delete drops the stores.
switch(w) ==
    /\ ~fatal
    /\ worker[w].pc = "switch"
    /\ registry' = dropStores(registry, worker[w].resource.uid)
    /\ worker' = [worker EXCEPT
           ![w].pc = IF Event(w) = deleteEvent THEN "emitCompleted"
                     ELSE IF parse(worker[w].resource.spec).err THEN "emitFailure"
                     ELSE IF parse(worker[w].resource.spec).Stores = << >>
                          THEN "emitCompleted"
                     ELSE "build",
           ![w].j = 1]
    /\ UNCHANGED <<api, workqueue, stores, nextUID, fatal, scrape, targets, watch, render, requestDurationVec>>

\* configurer.build: one iteration of the loop over configuration.Stores;
\* after the last one handleEvent goes on to the final status update.
build(w) ==
    /\ ~fatal
    /\ worker[w].pc = "build"
    /\ Len(stores) < MaxStores
    /\ LET Stores == parse(worker[w].resource.spec).Stores
           s == Len(stores) + 1
       IN /\ stores' = Append(stores, buildStore(Stores[worker[w].j]))
          /\ registry' = appendStore(registry, worker[w].resource.uid, s)
          /\ worker' = [worker EXCEPT
                 ![w].j = @ + 1,
                 ![w].pc = IF worker[w].j = Len(Stores) THEN "emitCompleted" ELSE "build"]
    /\ UNCHANGED <<api, workqueue, nextUID, fatal, scrape, targets, watch, render, requestDurationVec>>

\* Faulty variant: the success also sets Failed to False.
emitCompletedOkClearsFailed(w) ==
    /\ ~fatal
    /\ worker[w].pc = "emitCompleted"
    /\ Exists(Key(w))
    /\ api' = [api EXCEPT ![Key(w)].conditions =
                  Set(Set(@, [type |-> ConditionTypeProcessed, status |-> ConditionTrue]),
                      [type |-> ConditionTypeFailed, status |-> ConditionFalse])]
    /\ workqueue' = ApiWrite(workqueue, Key(w), api[Key(w)], api'[Key(w)])
    /\ worker' = [worker EXCEPT ![w].pc = "forget", ![w].result = "completed"]
    /\ UNCHANGED <<registry, stores, nextUID, fatal, scrape, targets, watch, render, requestDurationVec>>

\* emitSuccessOnResource(ConditionTrue): get, set Processed=True, update the
\* status.
emitCompletedOk(w) ==
    /\ ~fatal
    /\ worker[w].pc = "emitCompleted"
    /\ Exists(Key(w))
    /\ api' = [api EXCEPT ![Key(w)].conditions =
                  Set(@, [type |-> ConditionTypeProcessed, status |-> ConditionTrue])]
    /\ workqueue' = ApiWrite(workqueue, Key(w), api[Key(w)], api'[Key(w)])
    /\ worker' = [worker EXCEPT ![w].pc = "forget", ![w].result = "completed"]
    /\ UNCHANGED <<registry, stores, nextUID, fatal, scrape, targets, watch, render, requestDurationVec>>

\* The get or the status update fails: logged, handleEvent returns nil.
emitCompletedErr(w) ==
    /\ ~fatal
    /\ worker[w].pc = "emitCompleted"
    /\ worker' = [worker EXCEPT ![w].pc = "forget", ![w].result = "apiError"]
    /\ UNCHANGED <<api, workqueue, registry, stores, nextUID, fatal, scrape, targets, watch, render, requestDurationVec>>

emitCompleted(w) == emitCompletedOk(w) \/ emitCompletedErr(w)

\* emitFailureOnResource: get, set Failed=True, update the status.
emitFailureOk(w) ==
    /\ ~fatal
    /\ worker[w].pc = "emitFailure"
    /\ Exists(Key(w))
    /\ api' = [api EXCEPT ![Key(w)].conditions =
                  Set(@, [type |-> ConditionTypeFailed, status |-> ConditionTrue])]
    /\ workqueue' = ApiWrite(workqueue, Key(w), api[Key(w)], api'[Key(w)])
    /\ worker' = [worker EXCEPT ![w].pc = "forget", ![w].result = "failed"]
    /\ UNCHANGED <<registry, stores, nextUID, fatal, scrape, targets, watch, render, requestDurationVec>>

\* The get or the status update fails: HandleError, and the handler returns.
emitFailureErr(w) ==
    /\ ~fatal
    /\ worker[w].pc = "emitFailure"
    /\ worker' = [worker EXCEPT ![w].pc = "forget", ![w].result = "apiError"]
    /\ UNCHANGED <<api, workqueue, registry, stores, nextUID, fatal, scrape, targets, watch, render, requestDurationVec>>

emitFailure(w) == emitFailureOk(w) \/ emitFailureErr(w)

\* handleEvent returned nil: workqueue.Forget, then the deferred Done.
Forget(w) ==
    /\ ~fatal
    /\ worker[w].pc = "forget"
    /\ workqueue' = QueueDone(QueueForget(workqueue, worker[w].item), worker[w].item)
    /\ worker' = [worker EXCEPT ![w] = IdleWorker]
    /\ UNCHANGED <<api, registry, stores, nextUID, fatal, scrape, targets, watch, render, requestDurationVec>>

\* The Go runtime detects the unsynchronised map access and aborts:
\* "fatal error: concurrent map read and map write".
MapFatal ==
    /\ ~fatal
    /\ RegistryRace
    /\ fatal' = TRUE
    /\ UNCHANGED <<api, workqueue, worker, registry, stores, nextUID, scrape, targets, watch, render, requestDurationVec>>

(***************************************************************************)
(* The store of one target kind: the reflector's Add, Update and Delete.   *)
(***************************************************************************)

\* FamilyType.rawWith: the block of family f for object o at version v.
rawWith(f, o, v) == [t |-> "BLOCK", f |-> f, o |-> o, v |-> v]

\* Faulty variant: the last family is not rendered.
familyMetricsShort(s, o, v) ==
    [i \in 1..(Len(s.Families) - 1) |-> rawWith(s.Families[i], o, v)]

\* The familyMetrics slice Add computes: one block per family.
familyMetrics(s, o, v) ==
    [i \in 1..Len(s.Families) |-> rawWith(s.Families[i], o, v)]

\* mutex.Lock succeeds when no reader holds the mutex. The writer releases
\* it in the same step, so no state has a writer inside.
LockFree(s) == s.readers = 0

\* StoreType.Add under the write lock: metrics[uid] = familyMetrics.
Add(p, o, v) ==
    /\ ~fatal
    /\ LockFree(stores[p])
    /\ stores' = [stores EXCEPT ![p].metrics =
                     MapPut(@, o, familyMetrics(stores[p], o, v))]
    /\ UNCHANGED <<api, workqueue, worker, registry, nextUID, fatal, scrape>>

\* Faulty variant: the entry of the object is left as it was.
UpdateSkipped(p, o, v) ==
    /\ ~fatal
    /\ UNCHANGED <<api, workqueue, worker, registry, stores, nextUID, fatal, scrape>>

\* StoreType.Update defers to Add.
Update(p, o, v) == Add(p, o, v)

\* StoreType.Delete under the write lock: delete(metrics, uid).
Delete(p, o) ==
    /\ ~fatal
    /\ LockFree(stores[p])
    /\ o \in DOMAIN stores[p].metrics
    /\ stores' = [stores EXCEPT ![p].metrics = MapDelete(@, o)]
    /\ UNCHANGED <<api, workqueue, worker, registry, nextUID, fatal, scrape>>

(***************************************************************************)
(* The main server's /metrics handler and metricsWriter.writeAllTo.        *)
(***************************************************************************)

\* The orders in which a range over a Go map may produce the keys in S.
Orders(S) ==
    {p \in [1..Cardinality(S) -> S] :
        \A x, y \in 1..Cardinality(S) : x # y => p[x] # p[y]}

\* Faulty variant: the blocks are written before the header.
writeFamilyBlocksFirst(s, i, order) ==
    [k \in 1..Len(order) |-> s.metrics[order[k]][i]] \o s.headers[i]

\* writeAllTo, one family index of one store: the header, then the block of
\* every UID of the metrics map in the order the range produces them.
writeFamily(s, i, order) ==
    s.headers[i] \o [k \in 1..Len(order) |-> s.metrics[order[k]][i]]

\* Faulty variant: no read lock is taken.
RLockNone(readers) == readers

\* mutex.RLock.
RLock(readers) == readers + 1

\* The most scrapes of /metrics a behaviour completes.
MaxScrapes == 1

\* The handler starts: readBinarySemaphore.RLock, which no writer contends.
ScrapeBegin ==
    /\ ~fatal
    /\ scrape.pc = "idle"
    /\ requestDurationVec < MaxScrapes
    /\ scrape' = [IdleScrape EXCEPT !.pc = "range"]
    /\ UNCHANGED <<api, workqueue, worker, registry, stores, nextUID, fatal, targets, watch, render, requestDurationVec>>

\* for _, stores := range s.m: the next entry of the registry, in map order,
\* handed to newMetricsWriter(stores...).writeAllTo; or the end of the range.
ScrapeRange ==
    /\ ~fatal
    /\ scrape.pc = "range"
    /\ \/ \E u \in DOMAIN registry \ scrape.visited :
             scrape' = [scrape EXCEPT !.visited = @ \cup {u}, !.slice = registry[u],
                                      !.pc = "rlock", !.j = 1, !.i = 1]
       \/ /\ DOMAIN registry \ scrape.visited = {}
          /\ scrape' = [scrape EXCEPT !.pc = "done"]
    /\ UNCHANGED <<api, workqueue, worker, registry, stores, nextUID, fatal, targets, watch, render, requestDurationVec>>

\* writeAllTo, first loop: s.mutex.RLock() on each store of the slice.
ScrapeRLock ==
    /\ ~fatal
    /\ scrape.pc = "rlock"
    /\ stores' = [stores EXCEPT ![scrape.slice[scrape.j]].readers = RLock(@)]
    /\ scrape' = IF scrape.j = Len(scrape.slice)
                 THEN [scrape EXCEPT !.pc = "write", !.j = 1, !.i = 1]
                 ELSE [scrape EXCEPT !.j = @ + 1]
    /\ UNCHANGED <<api, workqueue, worker, registry, nextUID, fatal, targets, watch, render, requestDurationVec>>

\* writeAllTo, second loop: store j, family index i.
ScrapeWrite ==
    /\ ~fatal
    /\ scrape.pc = "write"
    /\ IF scrape.j > Len(scrape.slice)
       THEN scrape' = [scrape EXCEPT !.pc = "return"]
       ELSE LET s == stores[scrape.slice[scrape.j]]
            IN IF scrape.i > Len(s.headers)
               THEN scrape' = [scrape EXCEPT !.j = @ + 1, !.i = 1]
               ELSE \E order \in Orders(DOMAIN s.metrics) :
                       scrape' = [scrape EXCEPT
                           !.out = @ \o writeFamily(s, scrape.i, order),
                           !.i = @ + 1]
    /\ UNCHANGED <<api, workqueue, worker, registry, stores, nextUID, fatal, targets, watch, render, requestDurationVec>>

\* writeAllTo returns: the deferred RUnlock of every store of the slice.
ScrapeReturn ==
    /\ ~fatal
    /\ scrape.pc = "return"
    /\ stores' = [p \in DOMAIN stores |->
                    IF \E k \in 1..Len(scrape.slice) : scrape.slice[k] = p
                    THEN [stores[p] EXCEPT !.readers = @ - 1]
                    ELSE stores[p]]
    /\ scrape' = [scrape EXCEPT !.pc = "range", !.slice = << >>, !.j = 0, !.i = 0]
    /\ UNCHANGED <<api, workqueue, worker, registry, nextUID, fatal, targets, watch, render, requestDurationVec>>

\* Faulty variant: the duration is not observed.
ObserveNothing(histogram) == histogram

\* Observe on the histogram of the telemetry registry: one more observation.
Observe(histogram) == histogram + 1

\* The response is complete and the handler returns to the wrapper
\* promhttp.InstrumentHandlerDuration put around it, which observes the
\* duration of the request on requestsDurationVec.
ScrapeDone ==
    /\ ~fatal
    /\ scrape.pc = "done"
    /\ scrape' = IdleScrape
    /\ requestDurationVec' = Observe(requestDurationVec)
    /\ UNCHANGED <<api, workqueue, worker, registry, stores, nextUID, fatal, targets, watch, render>>

\* The texts writeAllTo may write for the stores slice[j..] from family index
\* i of store j on, one for each order in which the ranges over the metrics
\* maps may produce their keys.
RECURSIVE writeAllToFrom(_, _, _)
writeAllToFrom(slice, j, i) ==
    IF j > Len(slice) THEN {<< >>}
    ELSE IF i > Len(stores[slice[j]].headers) THEN writeAllToFrom(slice, j + 1, 1)
    ELSE {writeFamily(stores[slice[j]], i, order) \o rest :
            order \in Orders(DOMAIN stores[slice[j]].metrics),
            rest \in writeAllToFrom(slice, j, i + 1)}

\* writeAllTo as one step, for a slice whose stores nothing is writing: the
\* read locks are taken, the text is written and the locks are released.
ScrapeWriteAllTo ==
    /\ ~fatal
    /\ scrape.pc = "rlock"
    /\ \A k \in 1..Len(scrape.slice) : LockFree(stores[scrape.slice[k]])
    /\ \E text \in writeAllToFrom(scrape.slice, 1, 1) :
          scrape' = [scrape EXCEPT !.out = @ \o text, !.pc = "range",
                                   !.slice = << >>, !.j = 0, !.i = 0]
    /\ UNCHANGED <<api, workqueue, worker, registry, stores, nextUID, fatal, targets, watch, render, requestDurationVec>>

(***************************************************************************)
(* The controller with its worker pool and the /metrics handler. No        *)
(* target object exists, so the reflectors deliver nothing to the stores   *)
(* and writeAllTo is one step.                                             *)
(***************************************************************************)
Cluster ==
    \/ \E n \in Names, cfg \in Configs : UserCreate(n, cfg)
    \/ \E n \in Names, cfg \in Configs : UserUpdate(n, cfg)
    \/ \E n \in Names :
           \E obj \in {Object(n), DeletedFinalStateUnknown(n)} :
               UserDelete(n, obj)
    \/ \E n \in Names : InformerRelist(n)

Reconcile(w) ==
    \/ Get(w)
    \/ emitReceived(w)
    \/ switch(w)
    \/ build(w)
    \/ emitCompleted(w)
    \/ emitFailure(w)
    \/ Forget(w)

Handler ==
    \/ ScrapeBegin
    \/ ScrapeRange
    \/ ScrapeWriteAllTo
    \/ ScrapeDone

Next ==
    \/ Cluster
    \/ \E w \in WorkerIds : Reconcile(w)
    \/ MapFatal
    \/ Handler

Spec == Init /\ [][Next]_vars

(***************************************************************************)
(* The controller started with --workers=1.                                *)
(***************************************************************************)
NextSerial ==
    \/ Cluster
    \/ \E w \in SerialWorkerIds : Reconcile(w)
    \/ MapFatal
    \/ Handler

SpecSerial == Init /\ [][NextSerial]_vars

(***************************************************************************)
(* The stores of one managed resource, as configurer.build has registered  *)
(* them, with their reflectors delivering the events of the target objects *)
(* while /metrics is scraped; writeAllTo runs lock by lock, family by      *)
(* family.                                                                 *)
(***************************************************************************)
InitStore ==
    \E cfg \in {c \in Configs : ~parse(c).err} :
        /\ api = [n \in Names |-> [uid |-> 1, spec |-> cfg, conditions |-> << >>]]
        /\ workqueue = NewRateLimitingQueue
        /\ worker = [w \in WorkerIds |-> IdleWorker]
        /\ stores = [j \in 1..Len(parse(cfg).Stores) |-> buildStore(parse(cfg).Stores[j])]
        /\ registry = MapPut(EmptyMap, 1, [j \in 1..Len(parse(cfg).Stores) |-> j])
        /\ nextUID = 2
        /\ fatal = FALSE
        /\ scrape = IdleScrape
        /\ targets = NoTargets
        /\ watch = << >>
        /\ render = NoRender
        /\ requestDurationVec = 0

\* The watch of a reflector: Added for an object the store does not hold,
\* Modified and Deleted for one it holds.
Reflector ==
    \/ \E p \in DOMAIN stores, o \in ObjUIDs, v \in 1..MaxObjVer :
          /\ o \notin DOMAIN stores[p].metrics
          /\ Add(p, o, v)
          /\ UNCHANGED <<targets, watch, render, requestDurationVec>>
    \/ \E p \in DOMAIN stores, o \in ObjUIDs, v \in 1..MaxObjVer :
          /\ o \in DOMAIN stores[p].metrics
          /\ Update(p, o, v)
          /\ UNCHANGED <<targets, watch, render, requestDurationVec>>
    \/ \E p \in DOMAIN stores, o \in ObjUIDs :
          /\ Delete(p, o)
          /\ UNCHANGED <<targets, watch, render, requestDurationVec>>

HandlerByStep ==
    \/ ScrapeBegin
    \/ ScrapeRange
    \/ ScrapeRLock
    \/ ScrapeWrite
    \/ ScrapeReturn
    \/ ScrapeDone

NextStore ==
    \/ Reflector
    \/ HandlerByStep

SpecStore == InitStore /\ [][NextStore]_vars

(***************************************************************************)
(* Properties of the controller.                                           *)
(***************************************************************************)

\* The worker is inside syncHandler.
InSyncHandler(w) ==
    worker[w].pc \in {"emitReceived", "switch", "build", "emitCompleted", "emitFailure"}

\* The worker's handleEvent has run to its end and it is about to call
\* Forget and Done.
Processed(w, event) ==
    /\ worker[w].pc = "forget"
    /\ worker[w].result = "completed"
    /\ Event(w) = event

\* The entry of the UID holds one store per StoreSpec of the configuration,
\* in its order, each as buildStore makes it.
EntryIsBuildOf(resourceUID, raw) ==
    /\ resourceUID \in DOMAIN registry
    /\ Len(registry[resourceUID]) = Len(parse(raw).Stores)
    /\ \A j \in 1..Len(registry[resourceUID]) :
          LET s == stores[registry[resourceUID][j]]
              c == parse(raw).Stores[j]
          IN /\ s.Kind = c.Kind
             /\ s.Families = c.Families
             /\ Len(s.headers) = Len(c.Families)
             /\ \A i \in 1..Len(s.headers) :
                   s.headers[i] = << [t |-> "HELP", f |-> c.Families[i], o |-> "", v |-> 0],
                                     [t |-> "TYPE", f |-> c.Families[i], o |-> "", v |-> 0] >>

\* C1: once a worker has taken the delete work item of a resource and is
\* done with it, with no other worker at work, the registry holds no entry
\* under a UID that no resource of the cluster has.
C1_DeleteLeavesNoEntry ==
    \A w \in WorkerIds :
        ( /\ worker[w].pc = "forget"
          /\ Event(w) = deleteEvent
          /\ \A x \in WorkerIds \ {w} : worker[x].pc = "idle" )
        => \A u \in DOMAIN registry : \E n \in Names : api[n].uid = u

\* C2: no two unsynchronised accesses to the registry map, one of them a
\* write, are ever about to happen together: not two workers, and not a
\* worker and the /metrics handler ranging over the map.
C2_RegistryRaceFree == ~RegistryRace

\* C3: no two workers are inside syncHandler for the same key at the same
\* time, whatever the event kinds of their work items.
C3_OneWorkerPerKey ==
    \A w1, w2 \in WorkerIds :
        (w1 # w2 /\ InSyncHandler(w1) /\ InSyncHandler(w2)) => Key(w1) # Key(w2)

\* C4: when a worker has processed an update work item successfully, the
\* registry entry of the resource holds exactly one store per StoreSpec of
\* the configuration the worker read, and no other store.
C4_UpdateLeavesNewStores ==
    \A w \in WorkerIds :
        Processed(w, updateEvent)
            => EntryIsBuildOf(worker[w].resource.uid, worker[w].resource.spec)

\* C5: with one item processed at a time, an add or update item processed
\* successfully leaves the registry entry of the resource as one build of
\* its configuration makes it, one store per StoreSpec with the same
\* families and headers, however many times that configuration has been
\* built before.
C5_RebuildIsIdempotent ==
    \A w \in SerialWorkerIds :
        (Processed(w, addEvent) \/ Processed(w, updateEvent))
            => EntryIsBuildOf(worker[w].resource.uid, worker[w].resource.spec)

\* An item of a resource has been processed for the second time with an
\* unchanged configuration: the heap holds a dropped store equal to the one
\* now registered.
C5_Witness ==
    \E w \in SerialWorkerIds :
        /\ Processed(w, addEvent) \/ Processed(w, updateEvent)
        /\ worker[w].resource.uid \in DOMAIN registry
        /\ \E p \in DOMAIN stores :
              /\ \A j \in 1..Len(registry[worker[w].resource.uid]) :
                    registry[worker[w].resource.uid][j] # p
              /\ stores[p] = stores[registry[worker[w].resource.uid][1]]

\* C10: a step enqueues the update item of a resource exactly when it is a
\* write that changes the spec of that resource; the controller's own label
\* and status updates and a relist leave the work queue as it is.
C10_UpdateEnqueuedIffSpecChanged ==
    [][ /\ \A n \in Names :
             LET item == <<n, updateEvent>>
                 specChanged == /\ Exists(n)
                                /\ api'[n].uid = api[n].uid
                                /\ api'[n].spec # api[n].spec
             IN /\ specChanged => item \in workqueue'.dirty
                /\ (item \notin workqueue.dirty /\ item \in workqueue'.dirty)
                       => specChanged
        /\ (\E w \in WorkerIds : emitReceived(w) \/ emitCompleted(w) \/ emitFailure(w))
               => workqueue' = workqueue
        /\ (\E n \in Names : InformerRelist(n)) => workqueue' = workqueue
      ]_vars

\* An update item was enqueued and is being processed, and the label and
\* status updates its worker has made have enqueued nothing.
C10_Witness ==
    \E w \in WorkerIds :
        /\ worker[w].pc = "emitCompleted"
        /\ Event(w) = updateEvent
        /\ workqueue.dirty = {}
        /\ workqueue.queue = << >>

(***************************************************************************)
(* Properties of the stores and of a scrape.                               *)
(***************************************************************************)

\* The scrape is inside the one writeAllTo call of its response, past the
\* read locks.
InWriteAllTo ==
    /\ scrape.pc \in {"write", "return"}
    /\ Cardinality(scrape.visited) = 1

\* The family indexes of store k of the slice the scrape has written.
WrittenIndexes(k) ==
    IF scrape.pc = "return" \/ k < scrape.j THEN Len(stores[scrape.slice[k]].headers)
    ELSE IF k = scrape.j THEN scrape.i - 1
    ELSE 0

\* The positions of the response that hold a block of object o of store k.
BlocksOf(k, o) ==
    {x \in 1..Len(scrape.out) :
        /\ scrape.out[x].t = "BLOCK"
        /\ scrape.out[x].o = o
        /\ \E i \in 1..Len(stores[scrape.slice[k]].Families) :
              stores[scrape.slice[k]].Families[i] = scrape.out[x].f}

\* C6: inside writeAllTo the blocks one object of a store has contributed so
\* far all come from one Add or Update, one block for each family index
\* written, and they are the blocks the store holds for the object.
C6_ScrapeSeesOneAddPerObject ==
    InWriteAllTo =>
        \A k \in 1..Len(scrape.slice), o \in ObjUIDs :
            /\ \A x, y \in BlocksOf(k, o) : scrape.out[x].v = scrape.out[y].v
            /\ Cardinality(BlocksOf(k, o)) \in {0, WrittenIndexes(k)}
            /\ \A x \in BlocksOf(k, o) :
                  /\ o \in DOMAIN stores[scrape.slice[k]].metrics
                  /\ \E i \in 1..Len(stores[scrape.slice[k]].Families) :
                        stores[scrape.slice[k]].metrics[o][i] = scrape.out[x]

\* The scrape is between its reads of two family indexes of a store that
\* holds an object, and the store's writers are kept out.
C6_Witness ==
    /\ InWriteAllTo
    /\ scrape.pc = "write"
    /\ scrape.j = 1
    /\ scrape.i = 2
    /\ Len(stores[scrape.slice[1]].headers) = 2
    /\ "o1" \in DOMAIN stores[scrape.slice[1]].metrics
    /\ ~LockFree(stores[scrape.slice[1]])

\* The number of lines of kind t in the response.
CountLines(t) == Cardinality({x \in 1..Len(scrape.out) : scrape.out[x].t = t})

\* The number of lines writeAllTo writes for store s.
LinesOf(s) == Len(s.Families) * (2 + Cardinality(DOMAIN s.metrics))

\* The number of lines written before those of store k of the slice.
RECURSIVE OffsetOf(_)
OffsetOf(k) ==
    IF k = 1 THEN 0 ELSE OffsetOf(k - 1) + LinesOf(stores[scrape.slice[k - 1]])

\* The number of families of the first k stores of the slice.
RECURSIVE SumFamilies(_)
SumFamilies(k) ==
    IF k = 0 THEN 0
    ELSE SumFamilies(k - 1) + Len(stores[scrape.slice[k]].Families)

\* The number of blocks of the first k stores of the slice.
RECURSIVE SumBlocks(_)
SumBlocks(k) ==
    IF k = 0 THEN 0
    ELSE SumBlocks(k - 1) + Len(stores[scrape.slice[k]].Families)
                              * Cardinality(DOMAIN stores[scrape.slice[k]].metrics)

\* C7: when writeAllTo returns, the response is, for each store of the
\* resource in configuration order and each family index i in order, the
\* HELP line and the TYPE line of family i followed by exactly the blocks
\* metrics[uid][i], one for each UID of the store: F HELP lines, F TYPE
\* lines and F x U blocks per store, the headers also when U = 0.
C7_ResponseLayout ==
    (InWriteAllTo /\ scrape.pc = "return") =>
        LET n == Len(scrape.slice)
        IN /\ Len(scrape.out) = OffsetOf(n + 1)
           /\ CountLines("HELP") = SumFamilies(n)
           /\ CountLines("TYPE") = SumFamilies(n)
           /\ CountLines("BLOCK") = SumBlocks(n)
           /\ \A k \in 1..n :
                 LET s == stores[scrape.slice[k]]
                     U == Cardinality(DOMAIN s.metrics)
                 IN /\ \A n1 \in Names :
                          s.Kind = parse(api[n1].spec).Stores[k].Kind
                    /\ \A i \in 1..Len(s.Families) :
                          LET base == OffsetOf(k) + (i - 1) * (2 + U)
                          IN /\ scrape.out[base + 1] =
                                  [t |-> "HELP", f |-> s.Families[i], o |-> "", v |-> 0]
                             /\ scrape.out[base + 2] =
                                  [t |-> "TYPE", f |-> s.Families[i], o |-> "", v |-> 0]
                             /\ {scrape.out[base + 2 + m].o : m \in 1..U}
                                    = DOMAIN s.metrics
                             /\ \A m \in 1..U :
                                   scrape.out[base + 2 + m] =
                                       s.metrics[scrape.out[base + 2 + m].o][i]

\* writeAllTo returns for two stores, the first with two families and two
\* objects, the second with no object.
C7_Witness ==
    /\ InWriteAllTo
    /\ scrape.pc = "return"
    /\ Len(scrape.slice) = 2
    /\ Len(stores[scrape.slice[1]].Families) = 2
    /\ DOMAIN stores[scrape.slice[1]].metrics = ObjUIDs
    /\ DOMAIN stores[scrape.slice[2]].metrics = {}

\* C8: the text a scrape writes for stores in a given state is the only text
\* a scrape can write for them.
C8_ScrapeIsDeterministic ==
    (InWriteAllTo /\ scrape.pc = "return") =>
        \A text \in writeAllToFrom(scrape.slice, 1, 1) : text = scrape.out

\* C9: every store has as many headers as families, and holds for every UID
\* present as many blocks as it has headers.
C9_BlocksMatchHeaders ==
    \A p \in DOMAIN stores :
        /\ Len(stores[p].headers) = Len(stores[p].Families)
        /\ \A o \in DOMAIN stores[p].metrics :
              Len(stores[p].metrics[o]) = Len(stores[p].headers)

\* A store with two families holds the blocks of an object and a scrape is
\* about to index them.
C9_Witness ==
    /\ scrape.pc = "write"
    /\ scrape.j = 1
    /\ \E p \in DOMAIN stores :
          /\ p = scrape.slice[1]
          /\ Len(stores[p].Families) = 2
          /\ stores[p].metrics # EmptyMap

(***************************************************************************)
(* Properties of the handler's error paths and status conditions.          *)
(***************************************************************************)

\* The worker's handleEvent has returned after emitFailureOnResource wrote
\* the condition, for an item of that event.
Failed(w, event) ==
    /\ worker[w].pc = "forget"
    /\ worker[w].result = "failed"
    /\ Event(w) = event

\* C11: when a worker has handled an add or update item whose configuration
\* does not parse and has recorded the failure, the registry holds no entry
\* under the UID of the resource.
C11_ParseFailureLeavesNoStores ==
    \A w \in WorkerIds :
        ( /\ Failed(w, addEvent) \/ Failed(w, updateEvent)
          /\ parse(worker[w].resource.spec).err )
        => worker[w].resource.uid \notin DOMAIN registry

\* The worker's handleEvent has returned on the error of a get, an update or
\* a status update of the resource.
ApiError(w) ==
    /\ worker[w].pc = "forget"
    /\ worker[w].result = "apiError"

\* C12: when a worker whose handler hit an API error is done with its item,
\* the item is in the queue again.
C12_ApiErrorRequeues ==
    [][\A w \in WorkerIds :
          (ApiError(w) /\ worker'[w].pc = "idle")
              => worker[w].item \in {workqueue'.queue[k] : k \in 1..Len(workqueue'.queue)}
      ]_vars

(***************************************************************************)
(* The controller with every API call succeeding: a resource is created    *)
(* with a configuration that parses and changed, while no item is queued   *)
(* or in work and the heap has room for the new stores, to another one     *)
(* that parses. The Go scheduler runs every worker that can take a step.   *)
(***************************************************************************)
LiveCreate ==
    \E n \in Names, cfg \in {c \in Configs : ~parse(c).err} : UserCreate(n, cfg)

LiveUpdate ==
    \E n \in Names, cfg \in {c \in Configs : ~parse(c).err} :
        /\ \A w \in WorkerIds : worker[w].pc = "idle"
        /\ workqueue.queue = << >>
        /\ Len(stores) + Len(parse(cfg).Stores) <= MaxStores
        /\ UserUpdate(n, cfg)

ReconcileLive(w) ==
    \/ Get(w)
    \/ emitReceivedOk(w)
    \/ switch(w)
    \/ build(w)
    \/ emitCompletedOk(w)
    \/ Forget(w)

\* The reflector of a store delivers the first object of its kind.
LiveReflector ==
    \E p \in DOMAIN stores, o \in ObjUIDs, v \in 1..MaxObjVer :
        /\ stores[p].metrics = EmptyMap
        /\ Add(p, o, v)
        /\ UNCHANGED <<targets, watch, render, requestDurationVec>>

NextLive ==
    \/ LiveCreate
    \/ LiveUpdate
    \/ \E w \in WorkerIds : ReconcileLive(w)
    \/ LiveReflector

SpecLive ==
    /\ Init
    /\ [][NextLive]_vars
    /\ \A w \in WorkerIds : WF_vars(ReconcileLive(w))

C14_TombstoneEnqueuesDelete ==
    [][\A n \in Names :
          (Exists(n) /\ api'[n] = Absent)
              => <<n, deleteEvent>> \in workqueue'.dirty]_vars

(***************************************************************************)
(* The reflector of each store. buildStore starts it with a ListWatch      *)
(* whose ListFunc and WatchFunc ignore the options the reflector passes    *)
(* and send the fixed options lwo, which name no resourceVersion to resume *)
(* from: every watch begins with an ADDED event for each object that       *)
(* exists and goes on with the changes. The reflector hands the list to    *)
(* Replace and the events of the watch to Add, Update and Delete.          *)
(***************************************************************************)

\* The longest run of undelivered events of one watch.
MaxEvents == 2

\* The kind whose objects are the targets; no object of another kind exists.
TargetKind == "K1"

Added == "ADDED"
Modified == "MODIFIED"
Deleted == "DELETED"

\* A reflector between two watches.
ClosedWatch == [up |-> FALSE, events |-> << >>]

\* The objects a list or a new watch of store p returns.
Existing(p) ==
    IF stores[p].Kind = TargetKind
    THEN {o \in ObjUIDs : targets[o] # 0}
    ELSE {}

\* Faulty variant: Replace empties the store, as the cache.Store of client-go
\* does before it takes the list.
ReplaceClears(s, list) == [s EXCEPT !.metrics = EmptyMap]

\* StoreType.Replace: returns nil and leaves the store as it is.
Replace(s, list) == s

\* The API server sends the event to every open watch of the kind.
Send(e) ==
    [p \in DOMAIN watch |->
        IF watch[p].up /\ stores[p].Kind = TargetKind
        THEN [watch[p] EXCEPT !.events = Append(@, e)]
        ELSE watch[p]]

HasRoom == \A p \in DOMAIN watch : Len(watch[p].events) < MaxEvents

InitWatch ==
    \E cfg \in {c \in Configs : ~parse(c).err} :
        /\ api = [n \in Names |-> [uid |-> 1, spec |-> cfg, conditions |-> << >>]]
        /\ workqueue = NewRateLimitingQueue
        /\ worker = [w \in WorkerIds |-> IdleWorker]
        /\ stores = [j \in 1..Len(parse(cfg).Stores) |-> buildStore(parse(cfg).Stores[j])]
        /\ registry = MapPut(EmptyMap, 1, [j \in 1..Len(parse(cfg).Stores) |-> j])
        /\ nextUID = 2
        /\ fatal = FALSE
        /\ scrape = IdleScrape
        /\ targets \in [ObjUIDs -> 0..MaxObjVer]
        /\ watch = [j \in 1..Len(parse(cfg).Stores) |-> ClosedWatch]
        /\ render = NoRender
        /\ requestDurationVec = 0

\* A user creates target object o or changes it to content v.
TargetWrite(o, v) ==
    /\ targets[o] # v
    /\ HasRoom
    /\ targets' = [targets EXCEPT ![o] = v]
    /\ watch' = Send([type |-> IF targets[o] = 0 THEN Added ELSE Modified,
                      o |-> o, v |-> v])
    /\ UNCHANGED <<api, workqueue, worker, registry, stores, nextUID, fatal, scrape,
                   render, requestDurationVec>>

\* A user deletes target object o.
TargetDelete(o) ==
    /\ targets[o] # 0
    /\ HasRoom
    /\ targets' = [targets EXCEPT ![o] = 0]
    /\ watch' = Send([type |-> Deleted, o |-> o, v |-> targets[o]])
    /\ UNCHANGED <<api, workqueue, worker, registry, stores, nextUID, fatal, scrape,
                   render, requestDurationVec>>

\* The watch of store p ends (timeout, connection lost); the events it had
\* not delivered are gone with it.
WatchFail(p) ==
    /\ p \in DOMAIN watch
    /\ watch[p].up
    /\ watch' = [watch EXCEPT ![p] = ClosedWatch]
    /\ UNCHANGED <<api, workqueue, worker, registry, stores, nextUID, fatal, scrape,
                   targets, render, requestDurationVec>>

\* Reflector.ListAndWatch: the list goes to Replace, then the watch opens and
\* begins with an ADDED event for every object that exists.
ListAndWatch(p) ==
    /\ p \in DOMAIN watch
    /\ ~watch[p].up
    /\ \E list \in Orders(Existing(p)) :
          /\ stores' = [stores EXCEPT ![p] = Replace(@, list)]
          /\ watch' = [watch EXCEPT ![p] =
                          [up |-> TRUE,
                           events |-> [i \in 1..Len(list) |->
                                          [type |-> Added, o |-> list[i],
                                           v |-> targets[list[i]]]]]]
    /\ UNCHANGED <<api, workqueue, worker, registry, nextUID, fatal, scrape, targets,
                   render, requestDurationVec>>

\* The reflector's watch handler: the next event of the watch goes to the
\* store method of its type.
\* The next event of the watch of store p is of the given type.
Receive(p, type) ==
    /\ p \in DOMAIN watch
    /\ watch[p].up
    /\ watch[p].events # << >>
    /\ Head(watch[p].events).type = type
    /\ watch' = [watch EXCEPT ![p].events = Tail(@)]
    /\ UNCHANGED <<targets, render, requestDurationVec>>

watchHandler(p) ==
    \/ /\ Receive(p, Added)
       /\ Add(p, Head(watch[p].events).o, Head(watch[p].events).v)
    \/ /\ Receive(p, Modified)
       /\ Update(p, Head(watch[p].events).o, Head(watch[p].events).v)
    \/ /\ Receive(p, Deleted)
       /\ Delete(p, Head(watch[p].events).o)

NextWatch ==
    \/ \E o \in ObjUIDs, v \in 1..MaxObjVer : TargetWrite(o, v)
    \/ \E o \in ObjUIDs : TargetDelete(o)
    \/ \E p \in 1..MaxStores : WatchFail(p)
    \/ \E p \in 1..MaxStores : ListAndWatch(p)
    \/ \E p \in 1..MaxStores : watchHandler(p)

SpecWatch == InitWatch /\ [][NextWatch]_vars

(***************************************************************************)
(* Properties of a store and its reflector.                                *)
(***************************************************************************)

\* The version of object o whose blocks store p holds: 0 for no entry, -1
\* for an entry that is not the rendering of one version of o.
View(p, o) ==
    IF o \notin DOMAIN stores[p].metrics THEN 0
    ELSE IF \E v \in 1..MaxObjVer :
               stores[p].metrics[o] = familyMetrics(stores[p], o, v)
         THEN CHOOSE v \in 1..MaxObjVer :
                  stores[p].metrics[o] = familyMetrics(stores[p], o, v)
         ELSE -1

\* The undelivered events of the watch of store p that are about object o.
EventsOf(p, o) == SelectSeq(watch[p].events, LAMBDA e : e.o = o)

\* What store p holds for o once the undelivered events are applied, when
\* the most recent event of each UID decides: no entry after DELETED, the
\* blocks of the event's object after ADDED or MODIFIED.
Expected(p, o) ==
    IF EventsOf(p, o) = << >> THEN View(p, o)
    ELSE IF EventsOf(p, o)[Len(EventsOf(p, o))].type = Deleted THEN 0
    ELSE EventsOf(p, o)[Len(EventsOf(p, o))].v

\* The store and the rest of its watch add up to the objects of its kind.
InWatchOrder(p) ==
    \A o \in ObjUIDs :
        Expected(p, o) = IF stores[p].Kind = TargetKind THEN targets[o] ELSE 0

C16_CaughtUpStoreHoldsExisting ==
    \A p \in DOMAIN watch :
        (watch[p].up /\ watch[p].events = << >>)
            => DOMAIN stores[p].metrics = Existing(p)

(***************************************************************************)
(* Text. A Go string is modelled as the sequence of its characters, so     *)
(* that lengths, byte order, escaping, parsing and formatting are computed *)
(* as the code computes them.                                              *)
(***************************************************************************)

\* The longest label list handed to writeMetricTo and the longest metric list
\* of a family.
MaxLabels == 2
MaxMetrics == 2

\* The ASCII characters from code 32 to code 95, and the lower-case letters
\* from code 97 to code 122.
Ascii ==
    <<" ", "!", "\"", "#", "$", "%", "&", "'", "(", ")", "*", "+",
       ",", "-", ".", "/", "0", "1", "2", "3", "4", "5", "6", "7",
       "8", "9", ":", ";", "<", "=", ">", "?", "@", "A", "B", "C",
       "D", "E", "F", "G", "H", "I", "J", "K", "L", "M", "N", "O",
       "P", "Q", "R", "S", "T", "U", "V", "W", "X", "Y", "Z", "[",
       "\\", "]", "^", "_" >>

Lower ==
    <<"a", "b", "c", "d", "e", "f", "g", "h", "i", "j", "k", "l",
       "m", "n", "o", "p", "q", "r", "s", "t", "u", "v", "w", "x",
       "y", "z" >>

\* The byte of a character.
Code(c) ==
    CASE c = "\n" -> 10
      [] \E i \in 1..Len(Ascii) : Ascii[i] = c ->
             31 + CHOOSE i \in 1..Len(Ascii) : Ascii[i] = c
      [] OTHER -> 96 + CHOOSE i \in 1..Len(Lower) : Lower[i] = c

IsDigit(c) == Code(c) \in 48..57

DigitChar(d) == Ascii[d + 17]

\* The class \w of Go's regexp: letters, digits and the underscore.
IsWord(c) == Code(c) \in (48..57) \cup (65..90) \cup (97..122) \cup {95}

\* strings.ToLower on one character.
ToLower(c) == IF Code(c) \in 65..90 THEN Lower[Code(c) - 64] ELSE c

\* strings.ToLower(regexp.MustCompile(`\W`).ReplaceAllString(key, "_")).
SanitizeKey(key) ==
    [i \in 1..Len(key) |-> IF IsWord(key[i]) THEN ToLower(key[i]) ELSE "_"]

\* The concatenation of a sequence of strings.
RECURSIVE Concat(_)
Concat(ss) == IF ss = << >> THEN << >> ELSE Head(ss) \o Concat(Tail(ss))

\* Faulty variant: the backslash is written as it is.
EscapeKeepsBackslash(value) ==
    Concat([i \in 1..Len(value) |->
               CASE value[i] = "\n" -> <<"\\", "n">>
                 [] value[i] = "\"" -> <<"\\", "\"">>
                 [] OTHER -> <<value[i]>>])

\* strings.NewReplacer("\\", `\\`, "\n", `\n`, "\"", `\"`) applied to a value.
Escape(value) ==
    Concat([i \in 1..Len(value) |->
               CASE value[i] = "\\" -> <<"\\", "\\">>
                 [] value[i] = "\n" -> <<"\\", "n">>
                 [] value[i] = "\"" -> <<"\\", "\"">>
                 [] OTHER -> <<value[i]>>])

\* strings.Split(query, "."): the segments between the dots.
RECURSIVE Split(_)
Split(query) ==
    IF \E i \in 1..Len(query) : query[i] = "."
    THEN LET d == CHOOSE i \in 1..Len(query) :
                      query[i] = "." /\ \A j \in 1..(i - 1) : query[j] # "."
         IN <<SubSeq(query, 1, d - 1)>> \o Split(SubSeq(query, d + 1, Len(query)))
    ELSE <<query>>

\* The number a run of decimal digits denotes.
RECURSIVE Num(_)
Num(digits) ==
    IF digits = << >> THEN 0
    ELSE 10 * Num(SubSeq(digits, 1, Len(digits) - 1)) + (Code(digits[Len(digits)]) - 48)

\* The decimal digits of a natural number.
RECURSIVE Digits(_)
Digits(n) == IF n < 10 THEN <<DigitChar(n)>> ELSE Append(Digits(n \div 10), DigitChar(n % 10))

\* Doubles are held in millionths, the precision of the verb %f.
Million == 1000000

\* A float64: a finite number in millionths, a NaN, or an infinity with its
\* sign in place of the millionths.
Float(n) == [class |-> "finite", millionths |-> n]
NaN == [class |-> "NaN", millionths |-> 0]
Inf(sign) == [class |-> "Inf", millionths |-> sign]

\* strconv.ParseFloat(text, 64): the special values first (inf and infinity
\* with an optional sign, nan without one, in any case), then decimal texts:
\* an optional sign, digits with at most one dot and at least one digit. The
\* texts of this model carry no exponent, no hexadecimal mantissa and at most
\* six fraction digits.
ParseFloat(text) ==
    LET signed == text # << >> /\ text[1] \in {"+", "-"}
        body == IF signed THEN Tail(text) ELSE text
        lower == [i \in 1..Len(body) |-> ToLower(body[i])]
        dots == {i \in 1..Len(body) : body[i] = "."}
        ok == /\ Cardinality(dots) <= 1
              /\ \A i \in (1..Len(body)) \ dots : IsDigit(body[i])
              /\ (1..Len(body)) \ dots # {}
        d == IF dots = {} THEN Len(body) + 1 ELSE CHOOSE i \in dots : TRUE
        whole == SubSeq(body, 1, d - 1)
        fraction == SubSeq(body, d + 1, Len(body))
        padded == SubSeq(fraction \o [i \in 1..6 |-> "0"], 1, 6)
        magnitude == Num(whole) * Million + Num(padded)
    IN IF lower \in {<<"i", "n", "f">>, <<"i", "n", "f", "i", "n", "i", "t", "y">>}
       THEN [err |-> FALSE, f |-> Inf(IF signed /\ text[1] = "-" THEN 0 - 1 ELSE 1)]
       ELSE IF ~signed /\ lower = <<"n", "a", "n">>
       THEN [err |-> FALSE, f |-> NaN]
       ELSE IF ok
       THEN [err |-> FALSE,
             f |-> Float(IF signed /\ text[1] = "-" THEN 0 - magnitude ELSE magnitude)]
       ELSE [err |-> TRUE, f |-> Float(0)]

\* fmt.Fprintf(writer, "%f", f): six digits after the dot for a finite
\* number, NaN, +Inf and -Inf for the others.
FormatF(f) ==
    LET magnitude == IF f.millionths < 0 THEN 0 - f.millionths ELSE f.millionths
    IN IF f.class = "NaN" THEN <<"N", "a", "N">>
       ELSE IF f.class = "Inf"
       THEN (IF f.millionths < 0 THEN <<"-">> ELSE <<"+">>) \o <<"I", "n", "f">>
       ELSE (IF f.millionths < 0 THEN <<"-">> ELSE << >>)
            \o Digits(magnitude \div Million)
            \o <<".">>
            \o [i \in 1..6 |-> DigitChar((magnitude \div (10 ^ (6 - i))) % 10)]

(***************************************************************************)
(* writeMetricTo and sortLabelset. A strings.Builder is the sequence of    *)
(* the strings written to it.                                              *)
(***************************************************************************)

\* Go's a < b on strings: byte by byte, a proper prefix first.
StringLess(a, b) ==
    \/ \E i \in 1..Len(a) :
          /\ i <= Len(b)
          /\ Code(a[i]) < Code(b[i])
          /\ \A j \in 1..(i - 1) : a[j] = b[j]
    \/ Len(a) < Len(b) /\ \A j \in 1..Len(a) : a[j] = b[j]

\* The less function sortLabelset hands to sort.Slice.
Less(a, b) == IF Len(a) = Len(b) THEN StringLess(a, b) ELSE Len(a) < Len(b)

\* Faulty variant: the keys are sorted and the values stay where they were.
sortLabelsetKeysOnly(keys, values) ==
    {[keys |-> [i \in 1..Len(keys) |-> keys[order[i]]], values |-> values] :
        order \in {o \in Orders(1..Len(keys)) :
                      \A i, j \in 1..Len(keys) :
                          i < j => ~Less(keys[o[j]], keys[o[i]])}}

\* sortLabelset: the (key, value) pairs sorted by key with sort.Slice, which
\* is not stable: every arrangement in which no key is less than one before
\* it is a possible result.
sortLabelset(keys, values) ==
    {[keys |-> [i \in 1..Len(keys) |-> keys[order[i]]],
      values |-> [i \in 1..Len(keys) |-> values[order[i]]]] :
        order \in {o \in Orders(1..Len(keys)) :
                      \A i, j \in 1..Len(keys) :
                          i < j => ~Less(keys[o[j]], keys[o[i]])}}

\* The strings the label loop of writeMetricTo writes for label i.
LabelText(keys, values, i) ==
    << IF i = 1 THEN <<"{">> ELSE <<",">>, keys[i], <<"=", "\"">>, Escape(values[i]), <<"\"">> >>

\* The label set as writeMetricTo writes it: nothing for no label.
LabelsText(keys, values) ==
    IF Len(keys) > 0
    THEN Concat([i \in 1..Len(keys) |-> LabelText(keys, values, i)]) \o << <<"}">> >>
    ELSE << >>

\* Faulty variant: the brace is written before the lengths are compared.
MismatchAfterBrace(writer) == [err |-> TRUE, writer |-> writer \o << <<"{">> >>]

\* The answer of writeMetricTo to lists of different lengths: an error, and
\* the builder as it was.
Mismatch(writer) == [err |-> TRUE, writer |-> writer]

\* writeMetricTo: the possible results [err, writer]. A length mismatch is
\* answered before anything is written; a value that does not parse is
\* answered after the label set and the space were written.
writeMetricTo(writer, g, v, k, resolvedValue, resolvedLabelKeys, resolvedLabelValues) ==
    IF Len(resolvedLabelKeys) # Len(resolvedLabelValues)
    THEN {Mismatch(writer)}
    ELSE {LET keys == sorted.keys \o << <<"g", "r", "o", "u", "p">>, <<"v", "e", "r", "s", "i", "o", "n">>, <<"k", "i", "n", "d">> >>
              values == sorted.values \o <<g, v, k>>
              labelled == writer \o LabelsText(keys, values) \o << <<" ">> >>
          IN IF ParseFloat(resolvedValue).err
             THEN [err |-> TRUE, writer |-> labelled]
             ELSE [err |-> FALSE,
                   writer |-> labelled \o <<FormatF(ParseFloat(resolvedValue).f), <<"\n">>>>] :
          sorted \in sortLabelset(resolvedLabelKeys, resolvedLabelValues)}

(***************************************************************************)
(* Observed objects and the two resolvers.                                 *)
(***************************************************************************)

ResolverTypeNone == ""
ResolverTypeCEL == "cel"
ResolverTypeUnstructured == "unstructured"

\* A value of an unstructured object: a map of named children, or a scalar
\* of a Go type with the text fmt prints for it.
MapNode(fields) == [kind |-> "map", fields |-> fields]

ScalarNode(kind, text) == [kind |-> kind, text |-> text]

\* unstructured.NestedFieldNoCopy(obj, fields...).
RECURSIVE NestedFieldNoCopy(_, _)
NestedFieldNoCopy(node, fields) ==
    IF fields = << >> THEN [val |-> node, found |-> TRUE, err |-> FALSE]
    ELSE IF node.kind # "map" THEN [val |-> node, found |-> FALSE, err |-> TRUE]
    ELSE IF Head(fields) \notin DOMAIN node.fields
         THEN [val |-> node, found |-> FALSE, err |-> FALSE]
    ELSE NestedFieldNoCopy(node.fields[Head(fields)], Tail(fields))

\* fmt.Sprintf("%v", value): the text of a scalar; for a map the bracketed
\* form, of which only the first four characters are kept here.
FormatV(node) == IF node.kind = "map" THEN <<"m", "a", "p", "[">> ELSE node.text

\* Faulty variant: a query that addresses nothing is answered with the empty
\* text.
UnstructuredResolveEmpty(query, obj) ==
    LET r == NestedFieldNoCopy(obj, Split(query))
    IN IF ~r.found \/ r.err
       THEN [q \in {query} |-> << >>]
       ELSE [q \in {query} |-> FormatV(r.val)]

\* UnstructuredResolver.Resolve: one entry keyed by the query, the text of
\* the field at the dotted path, or the query itself when there is none.
UnstructuredResolve(query, obj) ==
    LET r == NestedFieldNoCopy(obj, Split(query))
    IN IF ~r.found \/ r.err
       THEN [q \in {query} |-> query]
       ELSE [q \in {query} |-> FormatV(r.val)]

\* fmt.Sprintf("%v", x) of a number: no fraction for a whole number, else
\* the fraction without its trailing zeros.
RECURSIVE TrimZeros(_)
TrimZeros(digits) ==
    IF digits # << >> /\ digits[Len(digits)] = "0"
    THEN TrimZeros(SubSeq(digits, 1, Len(digits) - 1))
    ELSE digits

FormatNumber(f) ==
    LET magnitude == IF f < 0 THEN 0 - f ELSE f
        fraction == TrimZeros([i \in 1..6 |->
                        DigitChar((magnitude \div (10 ^ (6 - i))) % 10)])
    IN (IF f < 0 THEN <<"-">> ELSE << >>)
       \o Digits(magnitude \div Million)
       \o (IF fraction = << >> THEN << >> ELSE <<".">> \o fraction)

\* The CEL expressions of this model: a number literal (digits, or digits
\* dot digits, with an optional minus), and the variable o followed by field
\* selections. Every other text fails to parse or to evaluate.
IsCELNumber(query) ==
    LET body == IF query # << >> /\ query[1] = "-" THEN Tail(query) ELSE query
        dots == {i \in 1..Len(body) : body[i] = "."}
    IN /\ body # << >>
       /\ Cardinality(dots) <= 1
       /\ \A i \in (1..Len(body)) \ dots : IsDigit(body[i])
       /\ \A i \in dots : i < Len(body)
       /\ (1..Len(body)) \ dots # {}

IsCELSelection(query) ==
    /\ Head(Split(query)) = <<"o">>
    /\ \A i \in 1..Len(Split(query)) : Split(query)[i] # << >>

\* The Go types resolveMap and resolveList accept for a child.
CELPrimitive(node) == node.kind \in {"string", "int", "uint", "float64", "bool"}

\* The types of a CEL result that Resolve answers with one entry.
CELScalar(node) == node.kind \in {"string", "int64", "uint64", "float64", "bool"}

\* CELResolver.resolveMap: one entry per child of a primitive Go type.
resolveMap(node) ==
    [k \in {x \in DOMAIN node.fields : CELPrimitive(node.fields[x])} |->
        node.fields[k].text]

\* CELResolver.Resolve: the query keyed to itself on any error, the text of
\* a primitive result keyed by the query, the children of a map result.
CELResolve(query, obj) ==
    IF IsCELNumber(query)
    THEN [q \in {query} |-> FormatNumber(ParseFloat(query).f.millionths)]
    ELSE IF ~IsCELSelection(query) THEN [q \in {query} |-> query]
    ELSE LET r == NestedFieldNoCopy(obj, Tail(Split(query)))
         IN IF ~r.found THEN [q \in {query} |-> query]
            ELSE IF CELScalar(r.val) THEN [q \in {query} |-> r.val.text]
            ELSE resolveMap(r.val)

\* The resolver rawWith instantiates for a resolver name.
Resolve(resolver, query, obj) ==
    IF resolver = ResolverTypeUnstructured
    THEN UnstructuredResolve(query, obj)
    ELSE CELResolve(query, obj)

(***************************************************************************)
(* FamilyType.rawWith, one metric of the family per step.                  *)
(***************************************************************************)

kubeCustomResourcePrefix == <<"k", "u", "b", "e", "_", "c", "u", "s", "t", "o", "m", "r", "e", "s", "o", "u", "r", "c", "e", "_">>

\* Faulty variant: the labels of a composite answer all go under the declared
\* key.
LabelsOfDeclaredKey(m, i, obj) ==
    LET query == m.LabelValues[i]
        resolvedLabelset == Resolve(m.Resolver, query, obj)
    IN IF query \in DOMAIN resolvedLabelset
       THEN {<< [key |-> SanitizeKey(m.LabelKeys[i]),
                 value |-> resolvedLabelset[query]] >>}
       ELSE {[j \in 1..Len(order) |->
                 [key |-> SanitizeKey(m.LabelKeys[i]),
                  value |-> resolvedLabelset[order[j]]]] :
             order \in Orders(DOMAIN resolvedLabelset)}

\* The labels the pair (LabelKeys[i], LabelValues[i]) of metric m yields: one
\* label under the declared key when the resolver answers with the query,
\* else one label per entry of the answer, in the order the range over the
\* Go map produces them.
LabelsOf(m, i, obj) ==
    LET query == m.LabelValues[i]
        resolvedLabelset == Resolve(m.Resolver, query, obj)
    IN IF query \in DOMAIN resolvedLabelset
       THEN {<< [key |-> SanitizeKey(m.LabelKeys[i]),
                 value |-> resolvedLabelset[query]] >>}
       ELSE {[j \in 1..Len(order) |->
                 [key |-> SanitizeKey(m.LabelKeys[i] \o order[j]),
                  value |-> resolvedLabelset[order[j]]]] :
             order \in Orders(DOMAIN resolvedLabelset)}

\* m.LabelKeys[i] is indexed past the end of the slice: the runtime panics.
IndexOutOfRange(m, obj) ==
    \E i \in 1..Len(m.LabelValues) :
        /\ i > Len(m.LabelKeys)
        /\ DOMAIN Resolve(m.Resolver, m.LabelValues[i], obj) # {}

\* The resolved labelset of metric m from pair i on.
RECURSIVE ResolvedLabels(_, _, _)
ResolvedLabels(m, i, obj) ==
    IF i > Len(m.LabelValues) THEN {<< >>}
    ELSE {first \o rest : first \in LabelsOf(m, i, obj),
                          rest \in ResolvedLabels(m, i + 1, obj)}

\* The metric after the inheritance of the loop body: the family's labels
\* are appended to its own, the family's resolver fills an empty one.
Inherit(f, m) ==
    [m EXCEPT !.LabelKeys = @ \o f.LabelKeys,
              !.LabelValues = @ \o f.LabelValues,
              !.Resolver = IF @ = ResolverTypeNone THEN f.Resolver ELSE @]

\* Faulty variant: the text of a failed writeMetricTo is kept.
KeptKeepsFailures(result) == result.writer

\* What rawWith appends to the family block after writeMetricTo returned:
\* ss.String() on success, nothing on failure.
Kept(result) == IF result.err THEN << >> ELSE result.writer

\* rawWith resolving the metric value: Resolve(m.Value, u.Object)[m.Value].
ResolveValue(m, obj) ==
    LET resolved == Resolve(m.Resolver, m.Value, obj)
    IN IF m.Value \in DOMAIN resolved
       THEN [found |-> TRUE, text |-> resolved[m.Value]]
       ELSE [found |-> FALSE, text |-> << >>]

\* The loop body of rawWith for metric m of family f and object u: the
\* possible results, each the metric as the body leaves it, the strings
\* appended to the family block, and whether the runtime panicked.
RenderMetric(f, m, u) ==
    LET im == Inherit(f, m)
    IN IF im.Resolver \notin {ResolverTypeNone, ResolverTypeCEL, ResolverTypeUnstructured}
       THEN {[panic |-> FALSE, m |-> im, ss |-> << >>]}
       ELSE IF IndexOutOfRange(im, u.Object)
       THEN {[panic |-> TRUE, m |-> im, ss |-> << >>]}
       ELSE IF ~ResolveValue(im, u.Object).found
       THEN {[panic |-> FALSE, m |-> im, ss |-> << >>]}
       ELSE {[panic |-> FALSE, m |-> im, ss |-> Kept(result)] :
                result \in UNION {
                    writeMetricTo(<<kubeCustomResourcePrefix, f.Name>>,
                                  u.Group, u.Version, u.Kind,
                                  ResolveValue(im, u.Object).text,
                                  [j \in 1..Len(labels) |-> labels[j].key],
                                  [j \in 1..Len(labels) |-> labels[j].value]) :
                    labels \in ResolvedLabels(im, 1, u.Object)}}

(***************************************************************************)
(* The inputs of the rendering: objects, metrics, families.                *)
(***************************************************************************)

\* Two observed objects of one kind. The second has a field named as the
\* number 42 and a field holding a map, which holds scalars and a map.
ObjectPool ==
    { [Group |-> <<"g">>, Version |-> <<"v", "1">>, Kind |-> <<"K">>,
       Object |-> MapNode(
           (<<"a">> :> ScalarNode("string", <<"x">>))
        @@ (<<"n">> :> ScalarNode("int64", <<"7">>))
        @@ (<<"q">> :> ScalarNode("string", <<"\"", "\\">>)))],
      [Group |-> <<"g">>, Version |-> <<"v", "1">>, Kind |-> <<"K">>,
       Object |-> MapNode(
           (<<"n">> :> ScalarNode("float64", <<"1", ".", "5">>))
        @@ (<<"4", "2">> :> ScalarNode("int64", <<"9">>))
        @@ (<<"m">> :> MapNode(
               (<<"k">> :> ScalarNode("string", <<"v">>))
            @@ (<<"j">> :> ScalarNode("string", <<"w", "\n">>))
            @@ (<<"i">> :> ScalarNode("int64", <<"3">>))
            @@ (<<"l">> :> MapNode(<<"e">> :> ScalarNode("string", <<"p">>))))))] }

\* Metrics as a configuration declares them.
MetricPool ==
    { [LabelKeys |-> <<<<"b">>>>, LabelValues |-> <<<<"a">>>>,
       Value |-> <<"n">>, Resolver |-> ResolverTypeNone],
      [LabelKeys |-> <<<<"B", "a">>, <<"c">>, <<"a", "b">>>>, LabelValues |-> <<<<"n">>, <<"q">>, <<"z", "z">>>>,
       Value |-> <<"4", "2">>, Resolver |-> ResolverTypeNone],
      [LabelKeys |-> << >>, LabelValues |-> << >>,
       Value |-> <<"a">>, Resolver |-> ResolverTypeNone],
      [LabelKeys |-> <<<<"L", "-">>>>, LabelValues |-> <<<<"o", ".", "m">>>>,
       Value |-> <<"o", ".", "n">>, Resolver |-> ResolverTypeCEL],
      [LabelKeys |-> <<<<"b">>>>, LabelValues |-> <<<<"o", ".", "a">>>>,
       Value |-> <<"o", ".", "m">>, Resolver |-> ResolverTypeCEL],
      [LabelKeys |-> <<<<"d">>, <<"b">>>>, LabelValues |-> <<<<"a">>, <<"o", ".", "q">>>>,
       Value |-> <<"1", ".", "5">>, Resolver |-> ResolverTypeUnstructured],
      [LabelKeys |-> << >>, LabelValues |-> <<<<"a">>>>,
       Value |-> <<"7">>, Resolver |-> ResolverTypeNone],
      [LabelKeys |-> <<<<"l", "_">>>>, LabelValues |-> <<<<"m", ".", "l">>>>,
       Value |-> <<"1">>, Resolver |-> ResolverTypeUnstructured],
      [LabelKeys |-> << >>, LabelValues |-> << >>,
       Value |-> <<"N", "a", "N">>, Resolver |-> ResolverTypeNone],
      [LabelKeys |-> <<<<"b">>, <<"c">>>>, LabelValues |-> <<<<"a">>>>,
       Value |-> <<"n">>, Resolver |-> ResolverTypeNone] }

\* Families of one or more metrics, with a resolver as Add leaves it and with
\* or without a label of their own.
FamilyPool ==
    {[Name |-> <<"f">>, Metrics |-> ms, Resolver |-> r,
      LabelKeys |-> ls[1], LabelValues |-> ls[2]] :
        ms \in UNION {[1..n -> MetricPool] : n \in 1..MaxMetrics},
        r \in {ResolverTypeCEL, ResolverTypeUnstructured},
        ls \in { << << >>, << >> >>, << <<<<"e">>>>, <<<<"n">>>> >> }}

\* The key lists, value lists and value texts writeMetricTo is called with.
KeyPool == {<<"a">>, <<"b">>, <<"a", "b">>}
ValuePool == {<<"x">>, <<"a", "\"">>, <<"\\", "n">>, <<"\n", "\\">>}
NumberPool == {<<"4", "2">>, <<"1", ".", "5">>, <<"x">>, <<"-", "i", "n", "f">>}

Lists(pool) == UNION {[1..n -> pool] : n \in 0..MaxLabels}

\* The queries a resolver is called with on its own: fields, nested fields,
\* a path through a scalar, paths that lead nowhere, a number, the empty text.
QueryPool ==
    { <<"a">>, <<"n">>, <<"m">>, <<"m", ".", "k">>, <<"m", ".", "l">>,
      <<"a", ".", "x">>, <<"z", "z">>, <<"4", "2">>, <<"1", ".", "5">>, << >>,
      <<"o">>, <<"o", ".", "a">>, <<"o", ".", "m">>, <<"o", ".", "m", ".", "k">>,
      <<"o", ".", "z">> }

InitRender ==
    /\ api = [n \in Names |-> Absent]
    /\ workqueue = NewRateLimitingQueue
    /\ worker = [w \in WorkerIds |-> IdleWorker]
    /\ registry = EmptyMap
    /\ stores = << >>
    /\ nextUID = 1
    /\ fatal = FALSE
    /\ scrape = IdleScrape
    /\ targets = NoTargets
    /\ watch = << >>
    /\ requestDurationVec = 0
    /\ \/ \E f \in FamilyPool, u \in ObjectPool :
             render = [pc |-> "rawWith", f |-> f, u |-> u, i |-> 1, s |-> << >>]
       \/ \E keys \in Lists(KeyPool), values \in Lists(ValuePool),
             value \in NumberPool :
             render = [pc |-> "writeMetricTo", keys |-> keys, values |-> values,
                       value |-> value, err |-> FALSE,
                       u |-> CHOOSE u \in ObjectPool : TRUE,
                       writer |-> <<kubeCustomResourcePrefix, <<"f">>>>]
       \/ \E resolver \in {ResolverTypeCEL, ResolverTypeUnstructured},
             query \in QueryPool, u \in ObjectPool :
             render = [pc |-> "Resolve", resolver |-> resolver, query |-> query,
                       u |-> u, answer |-> << >>]

\* One iteration of the loop of rawWith.
rawWithMetric ==
    /\ render.pc = "rawWith"
    /\ render.i <= Len(render.f.Metrics)
    /\ \E result \in RenderMetric(render.f, render.f.Metrics[render.i], render.u) :
          render' = [render EXCEPT !.pc = IF result.panic THEN "panic" ELSE @,
                                   !.f.Metrics[render.i] = result.m,
                                   !.i = @ + 1,
                                   !.s = @ \o result.ss]
    /\ UNCHANGED <<api, workqueue, worker, registry, stores, nextUID, fatal, scrape,
                   targets, watch, requestDurationVec>>

\* rawWith returns s.String().
rawWithReturn ==
    /\ render.pc = "rawWith"
    /\ render.i > Len(render.f.Metrics)
    /\ render' = [render EXCEPT !.pc = "done"]
    /\ UNCHANGED <<api, workqueue, worker, registry, stores, nextUID, fatal, scrape,
                   targets, watch, requestDurationVec>>

\* writeMetricTo called, after the prefix and the name were written, with
\* lists of any two lengths.
writeMetricToCall ==
    /\ render.pc = "writeMetricTo"
    /\ \E result \in writeMetricTo(render.writer, render.u.Group, render.u.Version,
                                   render.u.Kind, render.value,
                                   render.keys, render.values) :
          render' = [render EXCEPT !.pc = "returned", !.writer = result.writer,
                                   !.err = result.err]
    /\ UNCHANGED <<api, workqueue, worker, registry, stores, nextUID, fatal, scrape,
                   targets, watch, requestDurationVec>>

\* resolverInstance.Resolve(query, u.Object) called on its own.
ResolveCall ==
    /\ render.pc = "Resolve"
    /\ render' = [render EXCEPT !.pc = "resolved",
                                !.answer = Resolve(render.resolver, render.query,
                                                   render.u.Object)]
    /\ UNCHANGED <<api, workqueue, worker, registry, stores, nextUID, fatal, scrape,
                   targets, watch, requestDurationVec>>

NextRender ==
    \/ rawWithMetric
    \/ rawWithReturn
    \/ writeMetricToCall
    \/ ResolveCall

SpecRender == InitRender /\ [][NextRender]_vars

(***************************************************************************)
(* Properties of the rendering.                                            *)
(***************************************************************************)

NewLine == <<"\n">>

\* The lines of a family block: each runs up to and with its newline; what
\* follows the last newline is a last, unfinished line.
RECURSIVE Lines(_)
Lines(block) ==
    IF block = << >> THEN << >>
    ELSE IF \E i \in 1..Len(block) : block[i] = NewLine
    THEN LET n == CHOOSE i \in 1..Len(block) :
                      block[i] = NewLine /\ \A j \in 1..(i - 1) : block[j] # NewLine
         IN <<SubSeq(block, 1, n)>> \o Lines(SubSeq(block, n + 1, Len(block)))
    ELSE <<block>>

\* The number of labels of a line of the exposition format as it is written:
\* prefix, name, five strings per label, brace, space, value, newline.
LabelCount(line) == (Len(line) - 6) \div 5

\* A whole metric line with as many quoted values as keys.
WellFormed(line) ==
    /\ Len(line) >= 6
    /\ (Len(line) - 6) % 5 = 0
    /\ line[1] = kubeCustomResourcePrefix
    /\ \A i \in 1..LabelCount(line) :
          /\ line[5 * i - 2] = IF i = 1 THEN <<"{">> ELSE <<",">>
          /\ line[5 * i] = <<"=", "\"">>
          /\ line[5 * i + 2] = <<"\"">>
    /\ LabelCount(line) > 0 => line[Len(line) - 3] = <<"}">>
    /\ line[Len(line) - 2] = <<" ">>
    /\ line[Len(line)] = NewLine

KeyAt(line, i) == line[5 * i - 1]
ValueAt(line, i) == line[5 * i + 1]
NumberOf(line) == line[Len(line) - 1]

\* The lines emitted so far: the family block of rawWith, or the builder of
\* a writeMetricTo that returned without error.
EmittedLines ==
    IF render.pc \in {"rawWith", "done", "panic"} THEN Lines(render.s)
    ELSE IF render.pc = "returned" /\ ~render.err THEN <<render.writer>>
    ELSE << >>

\* The labels of the line before the three of the GVK are sorted and the
\* three follow in the order group, version, kind.
SortedThenGVK(line) ==
    LET n == LabelCount(line)
    IN /\ n >= 3
       /\ \A i, j \in 1..(n - 3) : i < j => ~Less(KeyAt(line, j), KeyAt(line, i))
       /\ KeyAt(line, n - 2) = <<"g", "r", "o", "u", "p">> /\ ValueAt(line, n - 2) = Escape(render.u.Group)
       /\ KeyAt(line, n - 1) = <<"v", "e", "r", "s", "i", "o", "n">> /\ ValueAt(line, n - 1) = Escape(render.u.Version)
       /\ KeyAt(line, n) = <<"k", "i", "n", "d">> /\ ValueAt(line, n) = Escape(render.u.Kind)

\* The labels of the line before the GVK are the given pairs, rearranged.
SamePairs(line, keys, values) ==
    /\ LabelCount(line) = Len(keys) + 3
    /\ \E order \in Orders(1..Len(keys)) :
          \A i \in 1..Len(keys) :
              /\ KeyAt(line, i) = keys[order[i]]
              /\ ValueAt(line, i) = Escape(values[order[i]])

\* C17: in every metric line the resolved labels come sorted by key, shorter
\* keys first and keys of one length in byte order, each key with the value
\* it was resolved with; the labels group, version and kind of the object
\* follow in this order, so no line has an empty label set.
C17_LabelsSortedThenGVK ==
    /\ \A l \in 1..Len(EmittedLines) :
          WellFormed(EmittedLines[l]) /\ SortedThenGVK(EmittedLines[l])
    /\ (render.pc = "returned" /\ ~render.err)
          => SamePairs(render.writer, render.keys, render.values)

\* writeMetricTo has written a line for two labels handed over out of order.
C17_Witness ==
    /\ render.pc = "returned"
    /\ ~render.err
    /\ Len(render.keys) = 2
    /\ Less(render.keys[2], render.keys[1])
    /\ render.values[1] # render.values[2]

\* C18: every metric line emitted has as many label values as label keys,
\* the three labels of the GVK counted; writeMetricTo called with key and
\* value lists of different lengths returns an error and writes nothing.
C18_LabelParity ==
    /\ \A l \in 1..Len(EmittedLines) : WellFormed(EmittedLines[l])
    /\ (render.pc = "returned" /\ Len(render.keys) # Len(render.values))
          => /\ render.err
             /\ render.writer = <<kubeCustomResourcePrefix, <<"f">>>>

\* writeMetricTo has returned from a call with more keys than values.
C18_Witness ==
    /\ render.pc = "returned"
    /\ Len(render.keys) > Len(render.values)
    /\ render.err

\* Metric j of the family being rendered gets a line: its value resolves and
\* parses as a double.
Emits(j) ==
    LET value == ResolveValue(render.f.Metrics[j], render.u.Object)
    IN value.found /\ ~ParseFloat(value.text).err

\* The metrics rawWith has gone through that get a line.
Emitting == {j \in 1..(render.i - 1) : Emits(j)}

\* The line of metric j: lines come in the order of declaration.
LineOf(j) == Lines(render.s)[Cardinality({k \in Emitting : k <= j})]

\* C19: while rawWith goes through the metrics of a family, a metric whose
\* value does not resolve or does not parse as a double adds nothing to the
\* block, not even a part of a line; every other metric has its whole line
\* in the block, in the order of declaration.
C19_FailedValueLeavesNoBytes ==
    render.pc \in {"rawWith", "done"} =>
        /\ Len(Lines(render.s)) = Cardinality(Emitting)
        /\ \A j \in Emitting :
              /\ WellFormed(LineOf(j))
              /\ NumberOf(LineOf(j)) =
                     FormatF(ParseFloat(ResolveValue(render.f.Metrics[j],
                                                     render.u.Object).text).f)

\* rawWith has returned for a family whose first metric has no usable value
\* and whose second has one.
C19_Witness ==
    /\ render.pc = "done"
    /\ Len(render.f.Metrics) = 2
    /\ ~Emits(1)
    /\ Emits(2)
    /\ Len(Lines(render.s)) = 1

\* C20: a metric whose value is a double literal is emitted with that
\* literal as its value, whatever the object holds and whichever resolver is
\* used: the literal is not looked up in the object.
C20_LiteralValueUsedDirectly ==
    render.pc \in {"rawWith", "done"} =>
        \A j \in 1..(render.i - 1) :
            ~ParseFloat(render.f.Metrics[j].Value).err =>
                /\ Emits(j)
                /\ NumberOf(LineOf(j)) =
                       FormatF(ParseFloat(render.f.Metrics[j].Value).f)

\* The segments of a path with a dot between each two.
RECURSIVE Join(_)
Join(path) ==
    IF Len(path) <= 1 THEN Concat(path)
    ELSE Head(path) \o <<".">> \o Join(Tail(path))

\* Every value below a node, with the names of the fields that lead to it.
RECURSIVE Fields(_)
Fields(node) ==
    IF node.kind # "map" THEN {}
    ELSE UNION {{[path |-> <<k>>, val |-> node.fields[k]]}
                \cup {[path |-> <<k>> \o e.path, val |-> e.val] :
                         e \in Fields(node.fields[k])} :
                k \in DOMAIN node.fields}

\* The values of the object the dotted path of the query addresses.
Addressed(query, obj) == {e.val : e \in {x \in Fields(obj) : Join(x.path) = query}}

\* What the claim has the path resolver answer: the text of the addressed
\* field, the query for a path that addresses nothing.
TextOrQuery(query, obj) ==
    IF Addressed(query, obj) = {} THEN query
    ELSE FormatV(CHOOSE val \in Addressed(query, obj) : TRUE)

\* The labels of a line before the three of the GVK, as (key, value) pairs.
LabelsIn(line) ==
    {<<KeyAt(line, i), ValueAt(line, i)>> : i \in 1..(LabelCount(line) - 3)}

\* C21: the path resolver answers every query with one entry keyed by the
\* query, holding the text of the field at the dotted path or, when there is
\* no such field, the query itself; a label of an emitted line whose query
\* addresses nothing is there under its declared key with the query as value.
C21_PathResolverAnswersOneEntry ==
    /\ (render.pc = "resolved" /\ render.resolver = ResolverTypeUnstructured)
          => /\ DOMAIN render.answer = {render.query}
             /\ render.answer[render.query] = TextOrQuery(render.query, render.u.Object)
    /\ render.pc \in {"rawWith", "done"} =>
          \A j \in Emitting :
              LET m == render.f.Metrics[j]
              IN m.Resolver = ResolverTypeUnstructured =>
                    \A i \in 1..Len(m.LabelValues) :
                        <<SanitizeKey(m.LabelKeys[i]),
                          Escape(TextOrQuery(m.LabelValues[i], render.u.Object))>>
                            \in LabelsIn(LineOf(j))

\* rawWith has returned a line of a metric of the path resolver with a label
\* whose query addresses a field and a label whose query addresses nothing,
\* the second with the query as its value.
C21_Witness ==
    /\ render.pc = "done"
    /\ \E j \in Emitting :
          LET m == render.f.Metrics[j]
          IN /\ m.Resolver = ResolverTypeUnstructured
             /\ \E i, k \in 1..Len(m.LabelValues) :
                   /\ Addressed(m.LabelValues[i], render.u.Object) = {}
                   /\ Addressed(m.LabelValues[k], render.u.Object) # {}
                   /\ <<SanitizeKey(m.LabelKeys[i]), Escape(m.LabelValues[i])>>
                         \in LabelsIn(LineOf(j))

\* The labels the claim has pair i of metric m produce for the object: the
\* pair, its key and its value, tagged with the entry it comes from.
PairLabels(m, i, obj) ==
    LET query == m.LabelValues[i]
        answer == Resolve(m.Resolver, query, obj)
    IN IF query \in DOMAIN answer
       THEN {[i |-> i, k |-> query,
              key |-> SanitizeKey(m.LabelKeys[i]), value |-> answer[query]]}
       ELSE {[i |-> i, k |-> k,
              key |-> SanitizeKey(m.LabelKeys[i] \o k), value |-> answer[k]] :
                k \in DOMAIN answer}

MetricLabels(m, obj) == UNION {PairLabels(m, i, obj) : i \in 1..Len(m.LabelValues)}

\* C22: the labels of an emitted line before group, version and kind are,
\* label for label, those of the pairs of its metric: for a pair whose answer
\* holds the query one label under the normalized key with the answer's
\* value, else one label per entry of the answer under the normalized
\* concatenation of the key and the entry's name.
C22_LabelsFollowTheAnswer ==
    render.pc \in {"rawWith", "done"} =>
        \A j \in Emitting :
            LET labels == MetricLabels(render.f.Metrics[j], render.u.Object)
                line == LineOf(j)
            IN /\ LabelCount(line) - 3 = Cardinality(labels)
               /\ \A l \in labels :
                     Cardinality({x \in 1..(LabelCount(line) - 3) :
                                     /\ KeyAt(line, x) = l.key
                                     /\ ValueAt(line, x) = Escape(l.value)})
                       = Cardinality({x \in labels : x.key = l.key /\ x.value = l.value})

\* rawWith has returned a line of a metric with one pair whose answer, two
\* entries neither of which is the query, gave two labels.
C22_Witness ==
    /\ render.pc = "done"
    /\ \E j \in Emitting :
          LET m == render.f.Metrics[j]
          IN /\ Len(m.LabelValues) = 1
             /\ m.LabelValues[1] \notin DOMAIN Resolve(m.Resolver, m.LabelValues[1], render.u.Object)
             /\ LabelCount(LineOf(j)) = 5
             /\ KeyAt(LineOf(j), 1) # KeyAt(LineOf(j), 2)

\* C23: with the path resolver a label whose query addresses a map of the
\* object is answered with the pair of the query and the query, and the line
\* carries the label whose key is the normalized concatenation of the declared
\* key and the query and whose value is the query.
C23_MapAnsweredWithQuery ==
    render.pc \in {"rawWith", "done"} =>
        \A j \in Emitting :
            LET m == render.f.Metrics[j]
            IN m.Resolver = ResolverTypeUnstructured =>
                  \A i \in 1..Len(m.LabelValues) :
                      (\E val \in Addressed(m.LabelValues[i], render.u.Object) :
                            val.kind = "map")
                        => /\ Resolve(m.Resolver, m.LabelValues[i], render.u.Object)
                                = [q \in {m.LabelValues[i]} |-> m.LabelValues[i]]
                           /\ <<SanitizeKey(m.LabelKeys[i] \o m.LabelValues[i]),
                                Escape(m.LabelValues[i])>> \in LabelsIn(LineOf(j))

\* The text is a decimal number as the exposition format writes a finite
\* value: an optional minus, digits, a dot, six digits.
FiniteText(text) ==
    LET body == IF text # << >> /\ text[1] = "-" THEN Tail(text) ELSE text
    IN /\ Len(body) >= 8
       /\ body[Len(body) - 6] = "."
       /\ \A i \in (1..Len(body)) \ {Len(body) - 6} : IsDigit(body[i])

\* C24: the value of every emitted line is a finite number: no line is
\* emitted for a value that does not parse as a double, for a NaN or for an
\* infinity.
C24_EmittedValuesAreFinite ==
    \A l \in 1..Len(EmittedLines) :
        WellFormed(EmittedLines[l]) => FiniteText(NumberOf(EmittedLines[l]))

\* A label value as a reader of the exposition format takes it between the
\* quotes: every backslash starts one of the three escapes, and no quote and
\* no newline stands on its own.
RECURSIVE Readable(_)
Readable(text) ==
    IF text = << >> THEN TRUE
    ELSE IF text[1] = "\\"
    THEN /\ Len(text) >= 2
         /\ text[2] \in {"\\", "\"", "n"}
         /\ Readable(SubSeq(text, 3, Len(text)))
    ELSE text[1] \notin {"\"", "\n"} /\ Readable(Tail(text))

\* The value the reader gets from a readable text.
RECURSIVE Unescape(_)
Unescape(text) ==
    IF text = << >> THEN << >>
    ELSE IF text[1] = "\\" /\ Len(text) >= 2
    THEN <<IF text[2] = "n" THEN "\n" ELSE text[2]>> \o Unescape(SubSeq(text, 3, Len(text)))
    ELSE <<text[1]>> \o Unescape(Tail(text))

\* C25: every label value of an emitted line stands between double quotes
\* and is readable: no quote or newline on its own, no backslash outside an
\* escape; read back, the values are the resolved values that were handed to
\* writeMetricTo, each under its key.
C25_LabelValuesSurviveReading ==
    /\ \A l \in 1..Len(EmittedLines) :
          LET line == EmittedLines[l]
          IN /\ WellFormed(line)
             /\ \A i \in 1..LabelCount(line) : Readable(ValueAt(line, i))
    /\ (render.pc = "returned" /\ ~render.err) =>
          \E order \in Orders(1..Len(render.keys)) :
              \A i \in 1..Len(render.keys) :
                  /\ KeyAt(render.writer, i) = render.keys[order[i]]
                  /\ Unescape(ValueAt(render.writer, i)) = render.values[order[i]]
    /\ render.pc \in {"rawWith", "done"} =>
          \A j \in Emitting :
              /\ \A x \in MetricLabels(render.f.Metrics[j], render.u.Object) :
                    \E i \in 1..(LabelCount(LineOf(j)) - 3) :
                        /\ KeyAt(LineOf(j), i) = x.key
                        /\ Unescape(ValueAt(LineOf(j), i)) = x.value
              /\ \A i \in 1..(LabelCount(LineOf(j)) - 3) :
                    \E x \in MetricLabels(render.f.Metrics[j], render.u.Object) :
                        /\ KeyAt(LineOf(j), i) = x.key
                        /\ Unescape(ValueAt(LineOf(j), i)) = x.value

\* writeMetricTo has written a line with a value that holds a backslash
\* before the letter n and a value that holds a newline before a backslash.
C25_Witness ==
    /\ render.pc = "returned"
    /\ ~render.err
    /\ render.values = << <<"\\", "n">>, <<"\n", "\\">> >>
    /\ \E i \in 1..2 : ValueAt(render.writer, i) = <<"\\", "\\", "n">>
    /\ \E i \in 1..2 : ValueAt(render.writer, i) = <<"\\", "n", "\\", "\\">>

(***************************************************************************)
(* Properties of the status conditions and of the worker loop.             *)
(***************************************************************************)

\* No two conditions of the list have one type.
OnePerType(conditions) ==
    \A i, j \in 1..Len(conditions) :
        conditions[i].type = conditions[j].type => i = j

\* The second list is the first after one Set: a condition of a type the
\* list holds has taken the place of the one of that type, or a condition of
\* a type it does not hold stands after the others, which are as they were.
MergedByType(before, after) ==
    \/ /\ Len(after) = Len(before)
       /\ \E i \in 1..Len(before) :
             /\ after[i].type = before[i].type
             /\ \A j \in (1..Len(before)) \ {i} : after[j] = before[j]
    \/ /\ Len(after) = Len(before) + 1
       /\ SubSeq(after, 1, Len(before)) = before
       /\ \A j \in 1..Len(before) : before[j].type # after[Len(after)].type

\* C26: whenever the handler writes the status of a managed resource, the
\* conditions are merged by type: the list holds at most one condition per
\* type, a condition of a type already there is replaced in place, and the
\* conditions of the other types stay as they were.
C26_ConditionsMergedByType ==
    [][\A n \in Names :
          /\ OnePerType(api'[n].conditions)
          /\ (Exists(n) /\ api'[n].uid = api[n].uid
                /\ api'[n].conditions # api[n].conditions)
               => MergedByType(api[n].conditions, api'[n].conditions)]_vars

\* A resource has a Processed condition set to True in front of a Failed
\* condition: Processed was replaced in place after Failed was appended.
C26_Witness ==
    \E n \in Names :
        /\ Len(api[n].conditions) = 2
        /\ api[n].conditions[1] = [type |-> ConditionTypeProcessed, status |-> ConditionTrue]
        /\ api[n].conditions[2].type = ConditionTypeFailed

\* The name of the histogram of the telemetry registry.
requestDurationName == "http_request_duration_seconds"

\* The /metrics handler of the main server returns.
ScrapeCompletes == scrape.pc = "done" /\ scrape'.pc = "idle"

\* C27: every scrape of the main /metrics endpoint that completes is observed
\* by the histogram http_request_duration_seconds, whose count of
\* observations grows with it and with nothing else; the response of the
\* scrape holds lines of the families of the stores only, none of the
\* histogram.
C27_ScrapeObservedByHistogram ==
    [][/\ ScrapeCompletes => requestDurationVec' > requestDurationVec
       /\ requestDurationVec' # requestDurationVec => ScrapeCompletes
       /\ ScrapeCompletes =>
             \A x \in 1..Len(scrape.out) :
                 /\ scrape.out[x].f # requestDurationName
                 /\ \E p \in DOMAIN stores :
                       \E i \in 1..Len(stores[p].Families) :
                           stores[p].Families[i] = scrape.out[x].f]_vars

\* A scrape has completed and was observed, while a store holds an object.
C27_Witness ==
    /\ requestDurationVec = 1
    /\ scrape.pc = "idle"
    /\ \E p \in DOMAIN stores : DOMAIN stores[p].metrics # {}

(***************************************************************************)
(* The worker loop with a sync handler that may fail and with the shutdown *)
(* of the queue: the controller started with --workers=1, the lister's Get *)
(* answering with an error other than NotFound, the root context being     *)
(* cancelled.                                                              *)
(***************************************************************************)

\* The most failures the rate limiter counts for one item.
MaxRequeues == 2

\* syncHandler: the lister's Get fails with an error that is not NotFound;
\* syncHandler returns it to processNextWorkItem.
ListerError(w) ==
    /\ ~fatal
    /\ worker[w].pc = "emitReceived"
    /\ NumRequeues(workqueue, worker[w].item) < MaxRequeues
    /\ worker' = [worker EXCEPT ![w].pc = "requeue", ![w].result = "error"]
    /\ UNCHANGED <<api, workqueue, registry, stores, nextUID, fatal, scrape, targets,
                   watch, render, requestDurationVec>>

\* syncHandler returned an error: workqueue.AddRateLimited, then the
\* deferred Done.
Requeue(w) ==
    /\ ~fatal
    /\ worker[w].pc = "requeue"
    /\ workqueue' = QueueDone(AddRateLimited(workqueue, worker[w].item), worker[w].item)
    /\ worker' = [worker EXCEPT ![w] = IdleWorker]
    /\ UNCHANGED <<api, registry, stores, nextUID, fatal, scrape, targets, watch,
                   render, requestDurationVec>>

\* The delay the rate limiter gave an item is over: the queue adds it.
DelayElapsed ==
    /\ ~fatal
    /\ \E item \in workqueue.waiting :
          workqueue' = QueueAdd([workqueue EXCEPT !.waiting = @ \ {item}], item)
    /\ UNCHANGED <<api, worker, registry, stores, nextUID, fatal, scrape, targets,
                   watch, render, requestDurationVec>>

\* The root context is cancelled: Run shuts the servers down and returns,
\* and its deferred workqueue.ShutDown runs.
ShutDown ==
    /\ ~fatal
    /\ ~workqueue.shuttingDown
    /\ workqueue' = [workqueue EXCEPT !.shuttingDown = TRUE]
    /\ UNCHANGED <<api, worker, registry, stores, nextUID, fatal, scrape, targets,
                   watch, render, requestDurationVec>>

\* processNextWorkItem on a queue that is shut down and drained: Get answers
\* (nil, true), and the type assertion objectWithEventInterface.([2]string)
\* on the nil interface, which stands before the test of shutdown, panics.
\* The panic leaves the goroutine of the worker and ends the process.
GetShutDown(w) == [pc |-> "panic", fatal |-> TRUE]

ProcessShutDown(w) ==
    /\ ~fatal
    /\ worker[w].pc = "idle"
    /\ workqueue.shuttingDown
    /\ workqueue.queue = << >>
    /\ worker' = [worker EXCEPT ![w].pc = GetShutDown(w).pc]
    /\ fatal' = GetShutDown(w).fatal
    /\ UNCHANGED <<api, workqueue, registry, stores, nextUID, scrape, targets, watch,
                   render, requestDurationVec>>

NextQueue ==
    \/ Cluster
    \/ \E w \in SerialWorkerIds : Reconcile(w)
    \/ \E w \in SerialWorkerIds : ListerError(w)
    \/ \E w \in SerialWorkerIds : Requeue(w)
    \/ DelayElapsed
    \/ ShutDown
    \/ \E w \in SerialWorkerIds : ProcessShutDown(w)

SpecQueue == Init /\ [][NextQueue]_vars

\* Worker w ends the processing of its item with this step.
EndsItem(w) == worker[w].pc \notin {"idle", "panic", "stopped"} /\ worker'[w].pc = "idle"

\* C28: an item a worker has obtained is being processed until the step in
\* which the worker ends with it, and that step marks it Done: no other step
\* takes an item out of processing. In that step the rate limiter counts a
\* failure of the item and the item is handed to AddRateLimited exactly when
\* the sync handler returned an error, and the failures of the item are
\* forgotten exactly when it returned nil; the worker is then ready for the
\* next item.
C28_DoneOnceRequeueOrForget ==
    [][/\ \A w \in WorkerIds :
             worker[w].pc \notin {"idle", "panic", "stopped"}
                => worker[w].item \in workqueue.processing
       /\ \A w \in WorkerIds :
             EndsItem(w) =>
                LET item == worker[w].item
                    failed == worker[w].result = "error"
                IN /\ item \notin workqueue'.processing
                   /\ failed <=> NumRequeues(workqueue', item)
                                    = NumRequeues(workqueue, item) + 1
                   /\ failed => item \in workqueue'.waiting \/ workqueue.shuttingDown
                   /\ ~failed <=> item \notin DOMAIN workqueue'.failures
                   /\ ~failed => workqueue'.waiting = workqueue.waiting
       /\ \A item \in workqueue.processing \ workqueue'.processing :
             \E w \in WorkerIds : worker[w].item = item /\ EndsItem(w)]_vars

\* An item that failed once has been requeued after its delay and is in the
\* queue again, the worker being ready for it.
C28_Witness ==
    \E item \in DOMAIN workqueue.failures :
        /\ workqueue.failures[item] = 1
        /\ item \in workqueue.dirty
        /\ item \notin workqueue.processing
        /\ \A w \in SerialWorkerIds : worker[w].pc = "idle"

\* C29: once the queue is shut down no worker panics and the process is not
\* aborted: a worker that gets the shutdown signal stops.
C29_WorkersStopCleanly ==
    /\ \A w \in WorkerIds : worker[w].pc # "panic"
    /\ workqueue.shuttingDown => ~fatal

(***************************************************************************)
(* The store under repeated Add, Update and Delete: the families and their *)
(* metrics are held through pointers, so what Add and rawWith assign to    *)
(* them is there at the next call.                                         *)
(***************************************************************************)

MaxAdds == 2

\* Metrics as the configuration declares them, with no label or one label of
\* their own and the resolver left to the enclosing scopes.
DeclaredMetricPool ==
    {m \in MetricPool : /\ m.Resolver = ResolverTypeNone
                        /\ Len(m.LabelKeys) = Len(m.LabelValues)
                        /\ Len(m.LabelKeys) <= 1}

\* Families as the configuration declares them: the resolver may be left to
\* the store.
DeclaredFamilyPool ==
    {[Name |-> <<"f">>, Metrics |-> ms, Resolver |-> r,
      LabelKeys |-> ls[1], LabelValues |-> ls[2]] :
        ms \in UNION {[1..n -> DeclaredMetricPool] : n \in 1..MaxMetrics},
        r \in {ResolverTypeNone, ResolverTypeUnstructured},
        ls \in { << << >>, << >> >>, << <<<<"e">>>>, <<<<"n">>>> >> }}

\* newStore: the store of one resource of the configuration, with one family
\* and no metrics yet.
newStore(families, resolver, labelKeys, labelValues) ==
    [metrics |-> EmptyMap, Families |-> families, Resolver |-> resolver,
     LabelKeys |-> labelKeys, LabelValues |-> labelValues]

StorePool ==
    {newStore(<<f>>, r, ls[1], ls[2]) :
        f \in DeclaredFamilyPool,
        r \in {ResolverTypeCEL, ResolverTypeUnstructured},
        ls \in { << << >>, << >> >>, << <<<<"s">>>>, <<<<"a">>>> >> }}

\* The loop of rawWith from metric i on, s being the builder so far: the
\* possible results, each the family as the loop leaves it, the block, and
\* whether the runtime panicked.
RECURSIVE rawWithLoop(_, _, _, _)
rawWithLoop(f, u, i, s) ==
    IF i > Len(f.Metrics) THEN {[f |-> f, s |-> s, panic |-> FALSE]}
    ELSE UNION {
        IF result.panic
        THEN {[f |-> [f EXCEPT !.Metrics[i] = result.m], s |-> s, panic |-> TRUE]}
        ELSE rawWithLoop([f EXCEPT !.Metrics[i] = result.m], u, i + 1,
                         s \o result.ss) :
        result \in RenderMetric(f, f.Metrics[i], u)}

\* The inheritance in the loop body of Add: the store's resolver fills an
\* empty one, the store's labels are appended to the family's.
InheritFromStore(s, f) ==
    [f EXCEPT !.Resolver = IF @ = ResolverTypeNone THEN s.Resolver ELSE @,
              !.LabelKeys = @ \o s.LabelKeys,
              !.LabelValues = @ \o s.LabelValues]

\* The loop of Add from family i on: the possible results, each the families
\* as the loop leaves them, the blocks, and whether the runtime panicked.
RECURSIVE AddLoop(_, _, _, _)
AddLoop(s, u, i, blocks) ==
    IF i > Len(s.Families)
    THEN {[Families |-> s.Families, familyMetrics |-> blocks, panic |-> FALSE]}
    ELSE UNION {
        IF result.panic
        THEN {[Families |-> [s.Families EXCEPT ![i] = result.f],
               familyMetrics |-> blocks, panic |-> TRUE]}
        ELSE AddLoop([s EXCEPT !.Families[i] = result.f], u, i + 1,
                     Append(blocks, result.s)) :
        result \in rawWithLoop(InheritFromStore(s, s.Families[i]), u, 1, << >>)}

\* The store after Add(u): the families as the loop left them and the blocks
\* of u under its UID (the objects of the pool have UIDs of their own, and
\* stand for them).
AddTo(s, u) ==
    {[s EXCEPT !.Families = result.Families,
               !.metrics = IF result.panic THEN @
                           ELSE MapPut(@, u, result.familyMetrics)] :
        result \in AddLoop(s, u, 1, << >>)}

InitAdd ==
    /\ api = [n \in Names |-> Absent]
    /\ workqueue = NewRateLimitingQueue
    /\ worker = [w \in WorkerIds |-> IdleWorker]
    /\ registry = EmptyMap
    /\ stores = << >>
    /\ nextUID = 1
    /\ fatal = FALSE
    /\ scrape = IdleScrape
    /\ targets = NoTargets
    /\ watch = << >>
    /\ requestDurationVec = 0
    /\ \E s \in StorePool :
          render = [pc |-> "store", configuration |-> s, s |-> s, adds |-> 0]

\* StoreType.Add for an object the store does not hold.
StoreTypeAdd(u) ==
    /\ render.pc = "store"
    /\ render.adds < MaxAdds
    /\ u \notin DOMAIN render.s.metrics
    /\ \E s \in AddTo(render.s, u) :
          render' = [render EXCEPT !.s = s, !.adds = @ + 1]
    /\ UNCHANGED <<api, workqueue, worker, registry, stores, nextUID, fatal, scrape,
                   targets, watch, requestDurationVec>>

\* StoreType.Update for an object the store holds: Add again.
StoreTypeUpdate(u) ==
    /\ render.pc = "store"
    /\ render.adds < MaxAdds
    /\ u \in DOMAIN render.s.metrics
    /\ \E s \in AddTo(render.s, u) :
          render' = [render EXCEPT !.s = s, !.adds = @ + 1]
    /\ UNCHANGED <<api, workqueue, worker, registry, stores, nextUID, fatal, scrape,
                   targets, watch, requestDurationVec>>

\* StoreType.Delete.
StoreTypeDelete(u) ==
    /\ render.pc = "store"
    /\ u \in DOMAIN render.s.metrics
    /\ render' = [render EXCEPT !.s.metrics = MapDelete(@, u)]
    /\ UNCHANGED <<api, workqueue, worker, registry, stores, nextUID, fatal, scrape,
                   targets, watch, requestDurationVec>>

NextAdd ==
    \/ \E u \in ObjectPool : StoreTypeAdd(u)
    \/ \E u \in ObjectPool : StoreTypeUpdate(u)
    \/ \E u \in ObjectPool : StoreTypeDelete(u)

SpecAdd == InitAdd /\ [][NextAdd]_vars

\* The blocks the parsed configuration yields for object u: those of Add on
\* the store as newStore returned it, where each inherited label is appended
\* once.
BlocksFor(configuration, u) ==
    {result.familyMetrics : result \in {r \in AddLoop(configuration, u, 1, << >>) :
                                            ~r.panic}}

\* C30: the blocks stored for an object are those the parsed configuration
\* yields for that object, whatever Add, Update and Delete have been applied
\* before, for this object or for others: each inherited store-level and
\* family-level label is in each line once.
C30_BlocksDependOnConfigurationAndObject ==
    render.pc = "store" =>
        \A u \in DOMAIN render.s.metrics :
            render.s.metrics[u] \in BlocksFor(render.configuration, u)

(***************************************************************************)
(* Properties of the label lists, of the resolvers in use and of the       *)
(* store's cache.Store methods.                                            *)
(***************************************************************************)

\* Metric j of the family, as rawWith left it after the inheritance, has as
\* many label keys as label values.
SameLength(j) == Len(render.f.Metrics[j].LabelKeys) = Len(render.f.Metrics[j].LabelValues)

\* C31: a metric whose label keys and label values, after the inheritance,
\* differ in number is skipped: it has no line in the block, the other
\* metrics that have a value have theirs, and rawWith returns (no panic).
C31_LengthMismatchSkipsTheMetric ==
    /\ (render.pc = "panic") => \A j \in 1..(render.i - 1) : SameLength(j)
    /\ render.pc \in {"rawWith", "done"} =>
          Len(Lines(render.s)) = Cardinality({j \in Emitting : SameLength(j)})

(***************************************************************************)
(* The store as buildStore builds it from a configuration that leaves the  *)
(* resolver to the enclosing scopes, names one, or names an unknown one.   *)
(***************************************************************************)

\* The resolver names a configuration may hold: none, the two known ones and
\* an unknown one.
ResolverNames == {ResolverTypeNone, ResolverTypeCEL, ResolverTypeUnstructured, "jsonpath"}

\* Two metrics, one whose queries are paths of the object and one whose
\* queries are CEL selections, each with every resolver name.
ResolverMetricPool ==
    {[LabelKeys |-> <<<<"b">>>>, LabelValues |-> <<q[1]>>, Value |-> q[2], Resolver |-> r] :
        q \in { << <<"a">>, <<"n">> >>, << <<"o", ".", "a">>, <<"o", ".", "n">> >> },
        r \in ResolverNames}

\* Faulty variant: CEL is the resolver of a store that names none.
DefaultResolverCEL(resolver) ==
    IF resolver = ResolverTypeNone THEN ResolverTypeCEL ELSE resolver

\* buildStore setting the default resolver.
DefaultResolver(resolver) ==
    IF resolver = ResolverTypeNone THEN ResolverTypeUnstructured ELSE resolver

InitResolver ==
    /\ api = [n \in Names |-> Absent]
    /\ workqueue = NewRateLimitingQueue
    /\ worker = [w \in WorkerIds |-> IdleWorker]
    /\ registry = EmptyMap
    /\ stores = << >>
    /\ nextUID = 1
    /\ fatal = FALSE
    /\ scrape = IdleScrape
    /\ targets = NoTargets
    /\ watch = << >>
    /\ requestDurationVec = 0
    /\ \E ms \in UNION {[1..n -> ResolverMetricPool] : n \in 1..MaxMetrics},
          r \in ResolverNames, resolver \in ResolverNames :
          LET f == [Name |-> <<"f">>, Metrics |-> ms, Resolver |-> r,
                    LabelKeys |-> << >>, LabelValues |-> << >>]
              s == newStore(<<f>>, DefaultResolver(resolver), << >>, << >>)
          IN render = [pc |-> "store", configuration |-> s, s |-> s, adds |-> 0,
                       resolver |-> resolver]

SpecResolver == InitResolver /\ [][NextAdd]_vars

\* The resolver the configuration names for a metric: its own, else its
\* family's, else its store's, else unstructured.
Effective(m, f, resolver) ==
    IF m.Resolver # ResolverTypeNone THEN m.Resolver
    ELSE IF f.Resolver # ResolverTypeNone THEN f.Resolver
    ELSE IF resolver # ResolverTypeNone THEN resolver
    ELSE ResolverTypeUnstructured

\* Metric m gets a line for object u when resolved with resolver r: r is a
\* known resolver and the value it answers parses as a double.
EmitsWith(r, m, u) ==
    /\ r \in {ResolverTypeCEL, ResolverTypeUnstructured}
    /\ LET value == ResolveValue([m EXCEPT !.Resolver = r], u.Object)
       IN value.found /\ ~ParseFloat(value.text).err

\* C32: after any Add the resolver of each metric is the one the
\* configuration names for it (its own, else its family's, else its
\* store's, else unstructured), and the block of an object holds a line for
\* exactly the metrics that resolver, being a known one, gives a value.
C32_ResolverInheritedThenUnstructured ==
    (render.pc = "store" /\ "resolver" \in DOMAIN render) =>
        \A u \in DOMAIN render.s.metrics :
            \A i \in 1..Len(render.s.Families) :
                LET f == render.configuration.Families[i]
                    named == [j \in 1..Len(f.Metrics) |->
                                 Effective(f.Metrics[j], f, render.resolver)]
                IN /\ \A j \in 1..Len(f.Metrics) :
                         render.s.Families[i].Metrics[j].Resolver = named[j]
                   /\ Len(Lines(render.s.metrics[u][i]))
                         = Cardinality({j \in 1..Len(f.Metrics) :
                                           EmitsWith(named[j], f.Metrics[j], u)})

\* A store whose configuration names no resolver for the store, the family
\* and the first metric, and an unknown one for the second metric, holds for
\* an object a block of one line: the first metric's, resolved by path.
C32_Witness ==
    /\ render.pc = "store"
    /\ "resolver" \in DOMAIN render
    /\ render.resolver = ResolverTypeNone
    /\ LET f == render.configuration.Families[1]
       IN /\ f.Resolver = ResolverTypeNone
          /\ Len(f.Metrics) = 2
          /\ f.Metrics[1].Resolver = ResolverTypeNone
          /\ f.Metrics[2].Resolver = "jsonpath"
          /\ \E u \in DOMAIN render.s.metrics :
                /\ Len(Lines(render.s.metrics[u][1])) = 1
                /\ render.s.Families[1].Metrics[1].Resolver = ResolverTypeUnstructured

(***************************************************************************)
(* The store behind the cache.Store interface: Add, Update and Delete, and *)
(* the methods that do nothing, each call of which is counted and leaves   *)
(* what it returned.                                                       *)
(***************************************************************************)

MaxCalls == 2

\* StoreType.Resync: returns nil and leaves the store as it is.
Resync(s) == s

\* What List, ListKeys, Get and GetByKey return: nil, and for the last two
\* false and no error with it.
Nil == [item |-> "nil", exists |-> FALSE, err |-> "nil"]

InitCache ==
    /\ api = [n \in Names |-> Absent]
    /\ workqueue = NewRateLimitingQueue
    /\ worker = [w \in WorkerIds |-> IdleWorker]
    /\ registry = EmptyMap
    /\ stores = << >>
    /\ nextUID = 1
    /\ fatal = FALSE
    /\ scrape = IdleScrape
    /\ targets = NoTargets
    /\ watch = << >>
    /\ requestDurationVec = 0
    /\ \E s \in {x \in StorePool : x.LabelKeys = << >> /\ x.Families[1].LabelKeys = << >>} :
          render = [pc |-> "store", configuration |-> s, s |-> s, adds |-> 0,
                    calls |-> 0, call |-> "", returned |-> Nil]

\* One of the methods that do nothing may be called.
Callable ==
    /\ render.pc = "store"
    /\ "calls" \in DOMAIN render
    /\ render.calls < MaxCalls

\* The call counted, with the store after it and what it returned.
Called(call, s, returned) ==
    [render EXCEPT !.s = s, !.calls = @ + 1, !.call = call, !.returned = returned]

StoreTypeReplace(list) ==
    /\ Callable
    /\ render' = Called("Replace", Replace(render.s, list), [Nil EXCEPT !.item = "none"])
    /\ UNCHANGED <<api, workqueue, worker, registry, stores, nextUID, fatal, scrape,
                   targets, watch, requestDurationVec>>

StoreTypeResync ==
    /\ Callable
    /\ render' = Called("Resync", Resync(render.s), [Nil EXCEPT !.item = "none"])
    /\ UNCHANGED <<api, workqueue, worker, registry, stores, nextUID, fatal, scrape,
                   targets, watch, requestDurationVec>>

StoreTypeList ==
    /\ Callable
    /\ render' = Called("List", render.s, Nil)
    /\ UNCHANGED <<api, workqueue, worker, registry, stores, nextUID, fatal, scrape,
                   targets, watch, requestDurationVec>>

StoreTypeListKeys ==
    /\ Callable
    /\ render' = Called("ListKeys", render.s, Nil)
    /\ UNCHANGED <<api, workqueue, worker, registry, stores, nextUID, fatal, scrape,
                   targets, watch, requestDurationVec>>

StoreTypeGet(u) ==
    /\ Callable
    /\ render' = Called("Get", render.s, Nil)
    /\ UNCHANGED <<api, workqueue, worker, registry, stores, nextUID, fatal, scrape,
                   targets, watch, requestDurationVec>>

StoreTypeGetByKey(u) ==
    /\ Callable
    /\ render' = Called("GetByKey", render.s, Nil)
    /\ UNCHANGED <<api, workqueue, worker, registry, stores, nextUID, fatal, scrape,
                   targets, watch, requestDurationVec>>

NextCache ==
    \/ \E u \in ObjectPool : StoreTypeAdd(u)
    \/ \E u \in ObjectPool : StoreTypeUpdate(u)
    \/ \E u \in ObjectPool : StoreTypeDelete(u)
    \/ \E list \in SUBSET ObjectPool : StoreTypeReplace(list)
    \/ StoreTypeResync
    \/ StoreTypeList
    \/ StoreTypeListKeys
    \/ \E u \in ObjectPool : StoreTypeGet(u)
    \/ \E u \in ObjectPool : StoreTypeGetByKey(u)

SpecCache == InitCache /\ [][NextCache]_vars

ReflectedUIDs == {"o1"}

\* Faulty variant: the reflector of a store runs while the store is in the
\* registry.
RunningWhileRegistered(p) ==
    /\ ~workqueue.shuttingDown
    /\ \E u \in DOMAIN registry : \E j \in 1..Len(registry[u]) : registry[u][j] = p

\* The reflector of store p runs: the channel it was started with, ctx.Done()
\* of the root context, is not closed.
Running(p) == ~workqueue.shuttingDown

\* The reflector of store p hands an event of its watch to the store.
reflectorRun(p) ==
    /\ p \in DOMAIN stores
    /\ Running(p)
    /\ \/ \E o \in ReflectedUIDs, v \in 1..MaxObjVer :
             /\ o \notin DOMAIN stores[p].metrics
             /\ Add(p, o, v)
       \/ \E o \in ReflectedUIDs, v \in 1..MaxObjVer :
             /\ o \in DOMAIN stores[p].metrics
             /\ Update(p, o, v)
       \/ \E o \in ReflectedUIDs : Delete(p, o)
    /\ UNCHANGED <<targets, watch, render, requestDurationVec>>

NextReflect ==
    \/ Cluster
    \/ \E w \in SerialWorkerIds : Reconcile(w)
    \/ \E p \in 1..MaxStores : reflectorRun(p)
    \/ ShutDown

SpecReflect == Init /\ [][NextReflect]_vars

\* Store p is in no entry of the registry.
Dropped(p) ==
    \A u \in DOMAIN registry : \A j \in 1..Len(registry[u]) : registry[u][j] # p

PollInterval == 1
PollTimeout == 60

\* The condition gets the resource, sets the labels and updates it, and
\* answers (true, nil): the poll ends and updateMetadata returns nil. The
\* update changes no spec, so UpdateFunc queues nothing.
updateMetadataOk(w) ==
    /\ ~fatal
    /\ worker[w].pc = "emitReceived"
    /\ worker[w].result = ""
    /\ Exists(Key(w))
    /\ workqueue' = ApiWrite(workqueue, Key(w), api[Key(w)], api[Key(w)])
    /\ worker' = [worker EXCEPT ![w].j = @ + 1, ![w].result = "polled"]
    /\ UNCHANGED <<api, registry, stores, nextUID, fatal, scrape, targets, watch,
                   render, requestDurationVec>>

\* Faulty variant: the stores of the resource are dropped before the
\* handler returns on the error.
updateMetadataErrDrops(w) ==
    /\ ~fatal
    /\ worker[w].pc = "emitReceived"
    /\ worker[w].result = ""
    /\ registry' = dropStores(registry, api[Key(w)].uid)
    /\ worker' = [worker EXCEPT ![w].j = @ + 1, ![w].pc = "forget",
                                ![w].result = "metadataError"]
    /\ UNCHANGED <<api, workqueue, stores, nextUID, fatal, scrape, targets,
                   watch, render, requestDurationVec>>

\* The get fails, or the update is rejected (a conflict with a write made
\* since the get): the condition answers (false, err), the poll ends with
\* that error, updateMetadata returns it and handleEvent returns nil.
updateMetadataErr(w) ==
    /\ ~fatal
    /\ worker[w].pc = "emitReceived"
    /\ worker[w].result = ""
    /\ worker' = [worker EXCEPT ![w].j = @ + 1, ![w].pc = "forget",
                                ![w].result = "metadataError"]
    /\ UNCHANGED <<api, workqueue, registry, stores, nextUID, fatal, scrape, targets,
                   watch, render, requestDurationVec>>

\* handleEvent after updateMetadata returned nil, up to the switch.
emitReceivedPolled(w) ==
    /\ worker[w].result = "polled"
    /\ emitReceived(w)

ReconcilePolling(w) ==
    \/ Get(w)
    \/ updateMetadataOk(w)
    \/ updateMetadataErr(w)
    \/ emitReceivedPolled(w)
    \/ switch(w)
    \/ build(w)
    \/ emitCompleted(w)
    \/ emitFailure(w)
    \/ Forget(w)

NextPoll ==
    \/ Cluster
    \/ \E w \in SerialWorkerIds : ReconcilePolling(w)

SpecPoll == Init /\ [][NextPoll]_vars

\* C35: updateMetadata gives up with an error only when the timeout of the
\* poll has expired: after a failed attempt the next interval brings another.
C35_FailedAttemptIsRetried ==
    \A w \in WorkerIds :
        worker[w].result = "metadataError" => worker[w].j * PollInterval >= PollTimeout

(***************************************************************************)
(* The stores of one managed resource with the mutex of each taken apart.  *)
(* A sync.RWMutex admits readers while no writer has called Lock; a writer *)
(* that has called Lock waits for the readers inside to leave and keeps    *)
(* later readers out; Unlock admits the readers that were kept out before  *)
(* a later writer can get in. watch[p] holds the writer side of the mutex  *)
(* of store p and the event its reflector is handing over.                 *)
(***************************************************************************)

\* The reflector of a store between two events.
Watching == [writer |-> "none", readerWait |-> "no", type |-> "", o |-> "", v |-> 0]

InitLock ==
    \E cfg \in {c \in Configs : ~parse(c).err} :
        /\ api = [n \in Names |-> [uid |-> 1, spec |-> cfg, conditions |-> << >>]]
        /\ workqueue = NewRateLimitingQueue
        /\ worker = [w \in WorkerIds |-> IdleWorker]
        /\ stores = [j \in 1..Len(parse(cfg).Stores) |-> buildStore(parse(cfg).Stores[j])]
        /\ registry = MapPut(EmptyMap, 1, [j \in 1..Len(parse(cfg).Stores) |-> j])
        /\ nextUID = 2
        /\ fatal = FALSE
        /\ scrape = IdleScrape
        /\ targets = NoTargets
        /\ watch = [j \in 1..Len(parse(cfg).Stores) |-> Watching]
        /\ render = NoRender
        /\ requestDurationVec = 0

\* The reflector of store p has an event of the given type for object o at
\* version v and calls Add, Update or Delete, which calls s.mutex.Lock().
reflectorLock(p, type, o, v) ==
    /\ p \in DOMAIN watch
    /\ watch[p].writer = "none"
    /\ type = Added <=> o \notin DOMAIN stores[p].metrics
    /\ watch' = [watch EXCEPT ![p].writer = "wanted", ![p].type = type,
                              ![p].o = o, ![p].v = v]
    /\ UNCHANGED <<api, workqueue, worker, registry, stores, nextUID, fatal, scrape,
                   targets, render, requestDurationVec>>

\* s.mutex.Lock() returns: no reader is inside and none was admitted.
reflectorLocked(p) ==
    /\ p \in DOMAIN watch
    /\ watch[p].writer = "wanted"
    /\ stores[p].readers = 0
    /\ watch[p].readerWait # "admitted"
    /\ watch' = [watch EXCEPT ![p].writer = "held"]
    /\ UNCHANGED <<api, workqueue, worker, registry, stores, nextUID, fatal, scrape,
                   targets, render, requestDurationVec>>

\* Faulty variant: the write lock is kept.
UnlockNever(reflector) == reflector

\* The deferred s.mutex.Unlock(): the writer is out and a reader that was
\* kept out is admitted.
Unlock(reflector) ==
    [Watching EXCEPT !.readerWait = IF reflector.readerWait = "blocked"
                                    THEN "admitted" ELSE reflector.readerWait]

\* Add, Update or Delete under the write lock, and the deferred Unlock.
reflectorWrite(p) ==
    /\ p \in DOMAIN watch
    /\ watch[p].writer = "held"
    /\ \/ watch[p].type = Added /\ Add(p, watch[p].o, watch[p].v)
       \/ watch[p].type = Modified /\ Update(p, watch[p].o, watch[p].v)
       \/ watch[p].type = Deleted /\ Delete(p, watch[p].o)
    /\ watch' = [watch EXCEPT ![p] = Unlock(@)]
    /\ UNCHANGED <<targets, render, requestDurationVec>>

\* writeAllTo, first loop: s.mutex.RLock() on the next store of the slice.
\* It returns when no writer has called Lock or when Unlock admitted the
\* reader; else the reader is kept out.
ScrapeRLockMutex ==
    /\ ~fatal
    /\ scrape.pc = "rlock"
    /\ LET p == scrape.slice[scrape.j]
       IN \/ /\ watch[p].writer = "none" \/ watch[p].readerWait = "admitted"
             /\ stores' = [stores EXCEPT ![p].readers = RLock(@)]
             /\ watch' = [watch EXCEPT ![p].readerWait = "no"]
             /\ scrape' = IF scrape.j = Len(scrape.slice)
                          THEN [scrape EXCEPT !.pc = "write", !.j = 1, !.i = 1]
                          ELSE [scrape EXCEPT !.j = @ + 1]
          \/ /\ watch[p].writer # "none"
             /\ watch[p].readerWait = "no"
             /\ watch' = [watch EXCEPT ![p].readerWait = "blocked"]
             /\ UNCHANGED <<stores, scrape>>
    /\ UNCHANGED <<api, workqueue, worker, registry, nextUID, fatal, targets, render,
                   requestDurationVec>>

\* writeAllTo, second loop: w.Write returns an error (the client is gone);
\* writeAllTo returns it and the deferred RUnlocks run.
ScrapeWriteFails ==
    /\ ~fatal
    /\ scrape.pc = "write"
    /\ scrape.j <= Len(scrape.slice)
    /\ scrape.i <= Len(stores[scrape.slice[scrape.j]].headers)
    /\ scrape' = [scrape EXCEPT !.pc = "return"]
    /\ UNCHANGED <<api, workqueue, worker, registry, stores, nextUID, fatal, targets,
                   watch, render, requestDurationVec>>

NextLock ==
    \/ ScrapeBegin
    \/ ScrapeRange
    \/ ScrapeRLockMutex
    \/ ScrapeWrite
    \/ ScrapeWriteFails
    \/ ScrapeReturn
    \/ ScrapeDone
    \/ \E p \in 1..MaxStores, type \in {Added, Modified, Deleted},
          o \in ReflectedUIDs, v \in 1..MaxObjVer : reflectorLock(p, type, o, v)
    \/ \E p \in 1..MaxStores : reflectorLocked(p)
    \/ \E p \in 1..MaxStores : reflectorWrite(p)

\* Every goroutine that can take its next step takes it in the end; no
\* scrape and no event has to come.
SpecLock ==
    /\ InitLock
    /\ [][NextLock]_vars
    /\ WF_vars(ScrapeRange)
    /\ WF_vars(ScrapeRLockMutex)
    /\ WF_vars(ScrapeWrite \/ ScrapeWriteFails)
    /\ WF_vars(ScrapeReturn)
    /\ WF_vars(ScrapeDone)
    /\ \A p \in 1..MaxStores : WF_vars(reflectorLocked(p))
    /\ \A p \in 1..MaxStores : WF_vars(reflectorWrite(p))

NotFound(w) == worker[w].pc # "idle" /\ ~Exists(Key(w))

emitReceivedNotFound(w) == NotFound(w) /\ emitReceivedErr(w)

emitCompletedNotFound(w) == NotFound(w) /\ emitCompletedErr(w)

emitFailureNotFound(w) == NotFound(w) /\ emitFailureErr(w)

ReconcileQuiet(w) ==
    \/ Get(w)
    \/ emitReceivedOk(w)
    \/ emitReceivedNotFound(w)
    \/ switch(w)
    \/ build(w)
    \/ emitCompletedOk(w)
    \/ emitCompletedNotFound(w)
    \/ emitFailureOk(w)
    \/ emitFailureNotFound(w)
    \/ Forget(w)

\* The stores a build of the configuration appends.
StoresOf(cfg) == IF parse(cfg).err THEN 0 ELSE Len(parse(cfg).Stores)

\* The stores the worker has still to append, were the resource to hold cfg
\* when the worker reads it.
StoresToCome(w, cfg) ==
    IF worker[w].pc = "emitReceived" /\ Event(w) # deleteEvent THEN StoresOf(cfg)
    ELSE IF worker[w].pc = "switch" /\ Event(w) # deleteEvent
         THEN StoresOf(worker[w].resource.spec)
    ELSE IF worker[w].pc = "build"
         THEN StoresOf(worker[w].resource.spec) - worker[w].j + 1
    ELSE 0

\* The heap of the model holds the stores of every build that is queued or
\* in work, the one of the new item among them, were the resource to hold
\* cfg from now on.
HeapHolds(item, cfg) ==
    Len(stores)
      + Cardinality({i \in workqueue.dirty \cup {item} : i[2] # deleteEvent})
          * StoresOf(cfg)
      + StoresToCome(CHOOSE w \in SerialWorkerIds : TRUE, cfg)
        <= MaxStores

\* A user creates, changes or deletes a managed resource.
ExternalChange ==
    \/ \E n \in Names, cfg \in Configs :
           HeapHolds(<<n, addEvent>>, cfg) /\ UserCreate(n, cfg)
    \/ \E n \in Names, cfg \in Configs :
           HeapHolds(<<n, updateEvent>>, cfg) /\ UserUpdate(n, cfg)
    \/ \E n \in Names : UserDelete(n, Object(n))

NextQuiet ==
    \/ ExternalChange
    \/ \E n \in Names : InformerRelist(n)
    \/ \E w \in SerialWorkerIds : ReconcileQuiet(w)

SpecQuiet ==
    /\ Init
    /\ [][NextQuiet]_vars
    /\ \A w \in SerialWorkerIds : WF_vars(ReconcileQuiet(w))

\* Nothing is queued, nothing is marked for queueing and no worker is busy.
Quiet ==
    /\ workqueue.queue = << >>
    /\ workqueue.dirty = {}
    /\ workqueue.processing = {}
    /\ \A w \in WorkerIds : worker[w].pc = "idle"

\* C37: the steps of the handler that write the labels or a status leave
\* the queue as it was; and unless users go on changing managed resources
\* for ever, the reconciler comes to rest and stays at rest: the queue is
\* empty and no worker is busy.
C37_ReconcilerQuiesces ==
    /\ [][\A w \in WorkerIds :
            ( /\ worker[w].pc \in {"emitReceived", "emitCompleted", "emitFailure"}
              /\ worker'[w].pc # worker[w].pc )
            => workqueue' = workqueue]_vars
    /\ ([]<><<ExternalChange>>_vars) \/ <>[]Quiet

\* At rest after a reconcile that wrote the labels and both statuses of a
\* resource whose configuration was changed.
C37_Witness ==
    /\ Quiet
    /\ \E n \in Names :
          /\ Exists(n)
          /\ StatusOf(api[n].conditions, ConditionTypeProcessed) = ConditionTrue
          /\ StatusOf(api[n].conditions, ConditionTypeFailed) = ConditionTrue
          /\ registry # EmptyMap

(***************************************************************************)
(* The controller started with --workers=1, its API calls succeeding or    *)
(* failing, and the /metrics handler.                                      *)
(***************************************************************************)
NextReturn ==
    \/ Cluster
    \/ \E w \in SerialWorkerIds : ReconcilePolling(w)
    \/ MapFatal
    \/ Handler

SpecReturn == Init /\ [][NextReturn]_vars

\* handleEvent of an add or update item has returned on the error of
\* updateMetadata or of emitSuccessOnResource(ConditionFalse): it has no
\* resource in hand.
ReturnedBeforeSwitch(w) ==
    /\ worker[w].pc = "forget"
    /\ worker[w].resource = NoResource
    /\ Event(w) \in {addEvent, updateEvent}

\* C38: the step of an add or update item in which the metadata refresh or
\* the first status write fails, and the step that then ends the item,
\* leave the registry and every store as they were.
C38_EarlyReturnLeavesTheRegistry ==
    [][\A w \in WorkerIds :
          ( \/ /\ worker[w].pc = "emitReceived"
               /\ Event(w) \in {addEvent, updateEvent}
               /\ worker'[w].pc = "forget"
            \/ /\ ReturnedBeforeSwitch(w)
               /\ worker'[w].pc = "idle" )
          => registry' = registry /\ stores' = stores
      ]_vars

\* The first status write of an update item has failed after the metadata
\* refresh succeeded; the entry of the resource still holds the stores of
\* the configuration it had before, and the scrape has written them out.
C38_Witness ==
    \E w \in WorkerIds :
        /\ ReturnedBeforeSwitch(w)
        /\ Event(w) = updateEvent
        /\ worker[w].result = "apiError"
        /\ Exists(Key(w))
        /\ api[Key(w)].uid \in DOMAIN registry
        /\ registry[api[Key(w)].uid] # << >>
        /\ ~EntryIsBuildOf(api[Key(w)].uid, api[Key(w)].spec)
        /\ api[Key(w)].uid \in scrape.visited
        /\ scrape.out # << >>

(***************************************************************************)
(* The Failed condition of a managed resource over its reconciles, with    *)
(* items processed one after the other.                                    *)
(***************************************************************************)

\* C39: the Failed condition of a resource is absent or True, and no step
\* takes a Failed=True away from a resource or gives it another status.
C39_FailedTrueIsKept ==
    /\ [](\A n \in Names :
             StatusOf(api[n].conditions, ConditionTypeFailed) \in {"", ConditionTrue})
    /\ [][\A n \in Names :
            ( /\ Exists(n)
              /\ api'[n].uid = api[n].uid
              /\ StatusOf(api[n].conditions, ConditionTypeFailed) = ConditionTrue )
            => StatusOf(api'[n].conditions, ConditionTypeFailed) = ConditionTrue]_vars

\* An update item has been processed successfully on a resource that failed
\* before: it carries Processed=True and Failed=True, and its entry is the
\* build of its configuration.
C39_Witness ==
    \E w \in WorkerIds :
        /\ worker[w].pc = "forget"
        /\ worker[w].result = "completed"
        /\ Event(w) = updateEvent
        /\ Exists(Key(w))
        /\ ~parse(api[Key(w)].spec).err
        /\ EntryIsBuildOf(api[Key(w)].uid, api[Key(w)].spec)
        /\ StatusOf(api[Key(w)].conditions, ConditionTypeProcessed) = ConditionTrue
        /\ StatusOf(api[Key(w)].conditions, ConditionTypeFailed) = ConditionTrue

====
